---- MODULE Spec2Model ----
(***************************************************************************)
(* Model of the spreadsheet layout-inference and extraction engine         *)
(* (parser_universal.py, parser.py).                                       *)
(*                                                                         *)
(* Cell values are tagged records [k, s, n]:                               *)
(*   k = "none"  : None, and the NaN pandas reads for an empty cell        *)
(*   k = "str"   : Python str, text in s                                   *)
(*   k = "int"   : Python int,   value n in hundredths                     *)
(*   k = "float" : Python float, value n in hundredths                     *)
(*   k = "date"  : datetime at midnight, n = yyyymmdd                      *)
(*   k = "nan"   : a float NaN handed to code that tells it from None      *)
(*   k = "inf"   : float infinity, n = 1 or -1 for its sign                *)
(* Text is handled character by character (lower-casing, stripping,        *)
(* substring tests), so that alias and keyword matching is computed and    *)
(* not assumed.  Column indices are 0-based as in the source; a row r of   *)
(* the model holds column i at r[i + 1].                                   *)
(***************************************************************************)
EXTENDS Integers, Sequences, FiniteSets, TLC

VARIABLES
    now,    \* the day datetime.now() falls on, as a day number
    seed,   \* the str hash seed of the Python process
    op,     \* "init", then the name of the operation that ran last
    arg,    \* the input of the operation
    ret,    \* what the operation returned
    hist    \* the calls made so far, as [arg, ret] records

vars == <<now, seed, op, arg, ret, hist>>

(***************************************************************************)
(* Values                                                                  *)
(***************************************************************************)
None == [k |-> "none", s |-> "", n |-> 0]
StrV(t) == [k |-> "str", s |-> t, n |-> 0]
IntV(i) == [k |-> "int", s |-> "", n |-> i * 100]
FloatV(h) == [k |-> "float", s |-> "", n |-> h]
DateV(ymd) == [k |-> "date", s |-> "", n |-> ymd]
NaN == [k |-> "nan", s |-> "", n |-> 0]
Inf(sign) == [k |-> "inf", s |-> "", n |-> sign]

IsNum(v) == v.k \in {"int", "float"}

(***************************************************************************)
(* Python str operations                                                   *)
(***************************************************************************)
\* TLC evaluates the arguments of an operator on demand.  A loop written as
\* a recursion tests Eager(acc) before it recurses, so that each pass is
\* evaluated before the next one starts.
Eager(v) == v = v

Contains(s, a) ==
    \E i \in 1..(Len(s) - Len(a) + 1) : SubSeq(s, i, i + Len(a) - 1) = a

StartsWith(s, a) == Len(a) <= Len(s) /\ SubSeq(s, 1, Len(a)) = a

EndsWith(s, a) == Len(a) <= Len(s) /\ SubSeq(s, Len(s) - Len(a) + 1, Len(s)) = a

LowerChar(c) ==
    CASE c = "A" -> "a" [] c = "B" -> "b" [] c = "C" -> "c" [] c = "D" -> "d"
      [] c = "E" -> "e" [] c = "F" -> "f" [] c = "G" -> "g" [] c = "H" -> "h"
      [] c = "I" -> "i" [] c = "J" -> "j" [] c = "K" -> "k" [] c = "L" -> "l"
      [] c = "M" -> "m" [] c = "N" -> "n" [] c = "O" -> "o" [] c = "P" -> "p"
      [] c = "Q" -> "q" [] c = "R" -> "r" [] c = "S" -> "s" [] c = "T" -> "t"
      [] c = "U" -> "u" [] c = "V" -> "v" [] c = "W" -> "w" [] c = "X" -> "x"
      [] c = "Y" -> "y" [] c = "Z" -> "z" [] OTHER -> c

RECURSIVE Lower(_)
Lower(s) ==
    IF Len(s) = 0 THEN ""
    ELSE IF Len(s) = 1 THEN LowerChar(s)
    ELSE Lower(SubSeq(s, 1, Len(s) \div 2)) \o Lower(SubSeq(s, Len(s) \div 2 + 1, Len(s)))

LStrip_c(s) ==
         {i \in 1..Len(s) : SubSeq(s, i, i) # " "}

LStrip(s) ==
    IF LStrip_c(s) = {} THEN ""
    ELSE SubSeq(s, CHOOSE i \in LStrip_c(s) : \A j \in LStrip_c(s) : i <= j, Len(s))

RStripChar_keep(s, c) ==
            {i \in 1..Len(s) : SubSeq(s, i, i) # c}

RStripChar(s, c) ==
    IF RStripChar_keep(s, c) = {} THEN ""
    ELSE SubSeq(s, 1, CHOOSE i \in RStripChar_keep(s, c) : \A j \in RStripChar_keep(s, c) : j <= i)

Strip(s) == RStripChar(LStrip(s), " ")

RECURSIVE Remove(_, _)
Remove(s, c) ==
    IF Len(s) = 0 THEN ""
    ELSE IF Len(s) = 1 THEN (IF s = c THEN "" ELSE s)
    ELSE Remove(SubSeq(s, 1, Len(s) \div 2), c)
         \o Remove(SubSeq(s, Len(s) \div 2 + 1, Len(s)), c)

Digits == {"0", "1", "2", "3", "4", "5", "6", "7", "8", "9"}

DigitStr(d) ==
    CASE d = 0 -> "0" [] d = 1 -> "1" [] d = 2 -> "2" [] d = 3 -> "3"
      [] d = 4 -> "4" [] d = 5 -> "5" [] d = 6 -> "6" [] d = 7 -> "7"
      [] d = 8 -> "8" [] d = 9 -> "9"

DigitVal(c) ==
    CASE c = "0" -> 0 [] c = "1" -> 1 [] c = "2" -> 2 [] c = "3" -> 3
      [] c = "4" -> 4 [] c = "5" -> 5 [] c = "6" -> 6 [] c = "7" -> 7
      [] c = "8" -> 8 [] c = "9" -> 9

RECURSIVE NatToStr(_)
NatToStr(i) ==
    IF i < 10 THEN DigitStr(i) ELSE NatToStr(i \div 10) \o DigitStr(i % 10)

IntToStr(i) == IF i < 0 THEN "-" \o NatToStr(-i) ELSE NatToStr(i)

AllDigits(s) == \A i \in 1..Len(s) : SubSeq(s, i, i) \in Digits

RECURSIVE StrToNat(_)
StrToNat(s) ==
    IF Len(s) = 0 THEN 0
    ELSE IF Len(s) = 1 THEN DigitVal(s)
    ELSE StrToNat(SubSeq(s, 1, Len(s) - 1)) * 10 + DigitVal(SubSeq(s, Len(s), Len(s)))

FloatToStr_a(h) ==
         IF h < 0 THEN -h ELSE h

FloatToStr_f(h) ==
         FloatToStr_a(h) % 100

\* str(v) of a float of h hundredths: "500.0", "500.5", "500.25".
FloatToStr(h) ==
    (IF h < 0 THEN "-" ELSE "") \o NatToStr(FloatToStr_a(h) \div 100) \o "."
    \o (IF FloatToStr_f(h) % 10 = 0 THEN DigitStr(FloatToStr_f(h) \div 10)
        ELSE DigitStr(FloatToStr_f(h) \div 10) \o DigitStr(FloatToStr_f(h) % 10))

Pad2(i) == IF i < 10 THEN "0" \o NatToStr(i) ELSE NatToStr(i)

\* strftime("%Y-%m-%d") of a date yyyymmdd.
IsoDate(ymd) ==
    NatToStr(ymd \div 10000) \o "-" \o Pad2((ymd \div 100) % 100) \o "-" \o Pad2(ymd % 100)

\* str(v) of a cell value.
PyStr(v) ==
    CASE v.k = "none" -> "None"
      [] v.k = "str" -> v.s
      [] v.k = "int" -> IntToStr(v.n \div 100)
      [] v.k = "float" -> FloatToStr(v.n)
      [] v.k = "date" -> IsoDate(v.n) \o " 00:00:00"
      [] v.k = "nan" -> "nan"
      [] v.k = "inf" -> IF v.n < 0 THEN "-inf" ELSE "inf"

PyFloat_value(ip, fp, minus) ==
        IF AllDigits(ip) /\ AllDigits(fp) /\ Len(ip) + Len(fp) > 0 /\ Len(fp) <= 2
        THEN [ok |-> TRUE,
              n |-> (IF minus THEN -1 ELSE 1)
                    * (StrToNat(ip) * 100
                       + (IF Len(fp) = 1 THEN StrToNat(fp) * 10 ELSE StrToNat(fp)))]
        ELSE [ok |-> FALSE, n |-> 0]

PyFloat_split(u, dot, minus) ==
        PyFloat_value(IF dot = 0 THEN u ELSE SubSeq(u, 1, dot - 1),
                      IF dot = 0 THEN "" ELSE SubSeq(u, dot + 1, Len(u)),
                      minus)

PyFloat_first(dots) ==
                   IF dots = {} THEN 0 ELSE CHOOSE i \in dots : \A j \in dots : i <= j

PyFloat_unsigned(u, minus) ==
        PyFloat_split(u, PyFloat_first({i \in 1..Len(u) : SubSeq(u, i, i) = "."}), minus)

PyFloat_signed(t, sign) ==
        PyFloat_unsigned(IF sign THEN SubSeq(t, 2, Len(t)) ELSE t, sign /\ SubSeq(t, 1, 1) = "-")

PyFloat_stripped(t) ==
                   PyFloat_signed(t, Len(t) > 0 /\ SubSeq(t, 1, 1) \in {"-", "+"})

\* float(s): an optional sign, digits, an optional fraction of at most two
\* digits, surrounding blanks allowed; anything else raises ValueError.  No
\* text of the model spells an exponent, "inf" or "nan".
\* ok = FALSE stands for the ValueError.
PyFloat(s) ==
    PyFloat_stripped(Strip(s))

(***************************************************************************)
(* parser_universal.py: primitive helpers                                  *)
(***************************************************************************)
_clean(v) == IF v.k \in {"none", "nan"} THEN "" ELSE Strip(PyStr(v))

_is_blank(v) == v.k \in {"none", "nan"} \/ _clean(v) = ""

_to_float_parsed(f) ==
                 IF f.ok THEN FloatV(f.n) ELSE None

_to_float_bare(s1) ==
        IF s1 \in {"-", "", "n/a", "N/A", "#N/A", "#VALUE!"} THEN None
        ELSE _to_float_parsed(PyFloat(s1))

_to_float_unbracketed(s0) ==
        _to_float_bare(IF StartsWith(s0, "(") /\ EndsWith(s0, ")")
                       THEN "-" \o SubSeq(s0, 2, Len(s0) - 1)
                       ELSE s0)

_to_float(v) ==
    IF _is_blank(v) THEN None
    ELSE IF IsNum(v) THEN FloatV(v.n)
    ELSE IF v.k = "inf" THEN v
    ELSE _to_float_unbracketed(Remove(Remove(Remove(_clean(v), "$"), ","), " "))

\* int(v) of a float infinity raises OverflowError, which no coercer catches.
IntOverflows(v) == v.k = "inf"

OverflowMessage == "cannot convert float infinity to integer"

_to_str_ref(v) ==
    IF _is_blank(v) THEN None
    ELSE IF v.k = "float" /\ v.n % 100 = 0 THEN StrV(IntToStr(v.n \div 100))
    ELSE IF _clean(v) = "" THEN None ELSE StrV(_clean(v))

\* `_clean(x) or None`
CleanOrNone(v) == IF _clean(v) = "" THEN None ELSE StrV(_clean(v))

_non_blank_vals(row) ==
    SelectSeq([i \in 1..Len(row) |-> IF _is_blank(row[i]) THEN "" ELSE _clean(row[i])],
              LAMBDA t : t # "")

InSeq(x, q) == \E i \in 1..Len(q) : q[i] = x

\* any(kw in text for kw in kws)
AnyIn(kws, text) == \E i \in 1..Len(kws) : Contains(text, kws[i])

(***************************************************************************)
(* Column-role mappers                                                     *)
(***************************************************************************)
\* An alias table is the dict in insertion order: a sequence of
\* [f |-> field, a |-> aliases].
_SOA_COL_ALIASES ==
    << [f |-> "company_code", a |-> <<"company code", "co code", "company">>],
       [f |-> "account", a |-> <<"account">>],
       [f |-> "reference",
        a |-> <<"reference", "ref no", "doc no", "document no", "invoice no">>],
       [f |-> "doc_date",
        a |-> <<"document date", "doc date", "posting date", "inv date">>],
       [f |-> "due_date",
        a |-> <<"net due date", "due date", "payment date", "net due">>],
       [f |-> "amount", a |-> <<"amount in doc", "amount", "balance", "value">>],
       [f |-> "currency", a |-> <<"curr", "currency">>],
       [f |-> "text", a |-> <<"text", "description", "narrative", "detail">>],
       [f |-> "assignment",
        a |-> <<"assignment", "assign", "reference key 1", "ref key 1">>],
       [f |-> "rr_comments",
        a |-> <<"r-r comments", "rr comments", "rr note", "comments">>],
       [f |-> "action_owner",
        a |-> <<"action owner", "action", "awaiting approval", "owner">>],
       [f |-> "days_late", a |-> <<"days late", "days overdue", "overdue days">>],
       [f |-> "customer_comments",
        a |-> <<"eth comments", "customer comments", "airline comments",
                "customer note">>],
       [f |-> "po_reference",
        a |-> <<"eth po reference", "eth po", "po reference", "po ref",
                "purchase order", "po number">>],
       [f |-> "lpi_cumulated", a |-> <<"lpi cumulated", "lpi cum", "cumulated lpi">>] >>

_SOA_POSITIONAL ==
    [company_code |-> 0, account |-> 1, reference |-> 2, doc_date |-> 3,
     due_date |-> 4, amount |-> 5, currency |-> 6, text |-> 7, assignment |-> 8,
     rr_comments |-> 9, action_owner |-> 10, days_late |-> 11,
     customer_comments |-> 12, po_reference |-> 13, lpi_cumulated |-> 14]

_INV_COL_ALIASES ==
    << [f |-> "reference", a |-> <<"reference", "doc no", "invoice no", "document no">>],
       [f |-> "doc_date", a |-> <<"document date", "doc date", "posting date">>],
       [f |-> "due_date", a |-> <<"net due date", "due date", "payment date">>],
       [f |-> "currency", a |-> <<"document currency", "currency", "curr">>],
       [f |-> "amount", a |-> <<"amount in doc", "amount", "value", "balance">>],
       [f |-> "reference_key3", a |-> <<"reference key 3", "ref key 3", "ref 3">>],
       [f |-> "text", a |-> <<"text", "description", "narrative">>],
       [f |-> "assignment", a |-> <<"assignment", "assign", "ref key 1">>] >>

\* The inner loop `for i, val in enumerate(header_row)` for one field, from
\* column i on: the column the field gets, or -1.  A column is skipped when it
\* is blank or already claimed; the first remaining column whose lower-cased
\* text contains an alias is taken, and `field in mapping` skips the rest.
\* The variant that forgets the `i in claimed` test.
RECURSIVE ScanColsNoClaim(_, _, _, _)
ScanColsNoClaim(header_row, aliases, claimed, i) ==
    IF i >= Len(header_row) THEN -1
    ELSE IF _is_blank(header_row[i + 1]) THEN
        ScanColsNoClaim(header_row, aliases, claimed, i + 1)
    ELSE IF AnyIn(aliases, Lower(_clean(header_row[i + 1]))) THEN i
    ELSE ScanColsNoClaim(header_row, aliases, claimed, i + 1)

RECURSIVE ScanCols(_, _, _, _)
ScanCols(header_row, aliases, claimed, i) ==
    IF i >= Len(header_row) THEN -1
    ELSE IF _is_blank(header_row[i + 1]) \/ i \in claimed THEN
        ScanCols(header_row, aliases, claimed, i + 1)
    ELSE IF AnyIn(aliases, Lower(_clean(header_row[i + 1]))) THEN i
    ELSE ScanCols(header_row, aliases, claimed, i + 1)

RECURSIVE AliasPass(_, _, _, _)
AliasPass_put(table, p, mapping, i) ==
              IF i = -1 THEN mapping ELSE mapping @@ (table[p].f :> i)

AliasPass_next(header_row, table, p, mapping, mapped) ==
        IF Eager(mapped) THEN AliasPass(header_row, table, p + 1, mapped)
        ELSE mapping

\* The outer loop `for field, kws in aliases.items()` from table entry p on;
\* mapping is a function from the fields mapped so far to their columns.
AliasPass(header_row, table, p, mapping) ==
    IF p > Len(table) THEN mapping
    ELSE AliasPass_next(header_row, table, p, mapping, AliasPass_put(table, p, mapping, ScanCols(header_row, table[p].a,
                                                                                                 {mapping[g] : g \in DOMAIN mapping}, 0)))

EmptyMap == [x \in {} |-> 0]

_map_generic_columns(header_row, aliases) == AliasPass(header_row, aliases, 1, EmptyMap)

_map_soa_columns_filled(m) ==
        [f \in DOMAIN _SOA_POSITIONAL |->
            IF f \in DOMAIN m THEN m[f] ELSE _SOA_POSITIONAL[f]]

\* The alias pass, then `if field not in mapping: mapping[field] = idx`.
_map_soa_columns(header_row) ==
    _map_soa_columns_filled(AliasPass(header_row, _SOA_COL_ALIASES, 1, EmptyMap))

\* col_map.get(field)
Get(m, f, default) == IF f \in DOMAIN m THEN m[f] ELSE default

(***************************************************************************)
(* parser.py: header normalisation and the legacy column mapper            *)
(***************************************************************************)
\* re.sub(r"\s+", " ", s)
\* Characters lo..hi of s without the blanks that follow a blank.
RECURSIVE Squeeze(_, _, _)
Squeeze(s, lo, hi) ==
    IF lo > hi THEN ""
    ELSE IF lo = hi THEN
        (IF lo > 1 /\ SubSeq(s, lo - 1, lo) = "  " THEN "" ELSE SubSeq(s, lo, lo))
    ELSE Squeeze(s, lo, (lo + hi) \div 2) \o Squeeze(s, (lo + hi) \div 2 + 1, hi)

CollapseSpaces(s) == Squeeze(s, 1, Len(s))

_normalise_header(raw) ==
    [i \in 1..Len(raw) |->
        IF raw[i].k = "none" THEN None ELSE StrV(CollapseSpaces(Strip(PyStr(raw[i]))))]

\* hl = [str(h).lower() if h else "" for h in header]
HeaderLower(header) ==
    [i \in 1..Len(header) |->
        IF header[i].k = "none" \/ PyStr(header[i]) = "" THEN ""
        ELSE Lower(PyStr(header[i]))]

\* The if/elif chain of _map_columns: the role a lower-cased header cell gets,
\* or "" when no branch matches.
LegacyRole(h) ==
    IF Contains(h, "amount") THEN "amount"
    ELSE IF h \in {"curr", "currency"} THEN "currency"
    ELSE IF Contains(h, "net due") \/ Contains(h, "due date") THEN "due_date"
    ELSE IF Contains(h, "document") /\ Contains(h, "date") THEN "doc_date"
    ELSE IF Contains(h, "document") /\ Contains(h, "no") THEN "doc_no"
    ELSE IF Contains(h, "invoice date") THEN "doc_date"
    ELSE IF h = "reference" \/ Contains(h, "reference") THEN "reference"
    ELSE IF h = "company" \/ Contains(h, "company") THEN "company"
    ELSE IF h = "account" \/ Contains(h, "account") THEN "account"
    ELSE IF h = "text" THEN "text"
    ELSE IF Contains(h, "assignment") \/ Contains(h, "arrangement") THEN "assignment"
    ELSE IF Contains(h, "r-r comment") \/ Contains(h, "rr comment") THEN "rr_comments"
    ELSE IF Contains(h, "action") \/ Contains(h, "reqd") THEN "action_owner"
    ELSE IF Contains(h, "days") /\ Contains(h, "late") THEN "days_late"
    ELSE IF Contains(h, "rata") THEN "rata_date"
    ELSE IF Contains(h, "comment") /\ ~Contains(h, "r-r") /\ ~Contains(h, "rr")
        THEN "customer_comments"
    ELSE IF Contains(h, "status") THEN "status"
    ELSE IF Contains(h, "customer") /\ ~Contains(h, "comment") /\ ~Contains(h, "name")
            /\ ~Contains(h, "n") /\ ~Contains(h, "respon")
        THEN "customer_name"
    ELSE IF Contains(h, "lpi") THEN "lpi_cumulated"
    ELSE IF Contains(h, "etr") \/ Contains(h, "po") \/ Contains(h, "pr") THEN "po_reference"
    ELSE IF Contains(h, "type") THEN "type"
    ELSE IF Contains(h, "interest") \/ Contains(h, "calc") THEN "interest_method"
    ELSE ""

\* mapping[key] = i (a later column overwrites an earlier one)
Put(m, f, i) == [g \in DOMAIN m \cup {f} |-> IF g = f THEN i ELSE m[g]]

RECURSIVE LegacyChain(_, _, _)
LegacyChain_put(i, mapping, role) ==
                 IF role = "" THEN mapping ELSE Put(mapping, role, i)

LegacyChain_next(hl, i, mapping, mapped) ==
                    IF Eager(mapped) THEN LegacyChain(hl, i + 1, mapped) ELSE mapping

LegacyChain(hl, i, mapping) ==
    IF i >= Len(hl) THEN mapping
    ELSE LegacyChain_next(hl, i, mapping, LegacyChain_put(i, mapping, IF hl[i + 1] = "" THEN "" ELSE LegacyRole(hl[i + 1])))

FirstFree_c(hl, word, mapping) ==
         {i \in 0..(Len(hl) - 1) :
            Contains(hl[i + 1], word) /\ i \notin {mapping[g] : g \in DOMAIN mapping}}

\* `for i, h in enumerate(hl): if word in h and i not in mapping.values()`: the
\* first such column, or -1.
FirstFree(hl, word, mapping) ==
    IF FirstFree_c(hl, word, mapping) = {} THEN -1 ELSE CHOOSE i \in FirstFree_c(hl, word, mapping) : \A j \in FirstFree_c(hl, word, mapping) : i <= j

_map_columns_due(m1, u) ==
        IF "due_date" \notin DOMAIN m1 /\ u # -1 THEN Put(m1, "due_date", u) ELSE m1

_map_columns_second(hl, m1) ==
                      _map_columns_due(m1, FirstFree(hl, "due", m1))

_map_columns_doc(hl, m0, d) ==
        _map_columns_second(hl, IF "doc_date" \notin DOMAIN m0 /\ d # -1
                                THEN Put(m0, "doc_date", d) ELSE m0)

_map_columns_first(hl, m0) ==
                     _map_columns_doc(hl, m0, FirstFree(hl, "date", m0))

_map_columns_chained(hl) ==
                   _map_columns_first(hl, LegacyChain(hl, 0, EmptyMap))

_map_columns(header) ==
    _map_columns_chained(HeaderLower(header))

(***************************************************************************)
(* Workbooks.  all_sheets is the dict {name: DataFrame} in sheet order: a  *)
(* sequence of [name, rows]; every row of a sheet has the same length.     *)
(***************************************************************************)
Min(a, b) == IF a <= b THEN a ELSE b

SetMin(S) == CHOOSE i \in S : \A j \in S : i <= j

RECURSIVE SumSeq(_)
SumSeq(q) ==
    IF Len(q) = 0 THEN 0
    ELSE IF Len(q) = 1 THEN q[1]
    ELSE SumSeq(SubSeq(q, 1, Len(q) \div 2)) + SumSeq(SubSeq(q, Len(q) \div 2 + 1, Len(q)))

\* df.head(k) / rows[:k]
FirstRows(rows, k) == SubSeq(rows, 1, Min(k, Len(rows)))

RECURSIVE FlatCells(_)
FlatCells(rows) ==
    IF Len(rows) = 0 THEN << >>
    ELSE IF Len(rows) = 1 THEN rows[1]
    ELSE FlatCells(SubSeq(rows, 1, Len(rows) \div 2))
         \o FlatCells(SubSeq(rows, Len(rows) \div 2 + 1, Len(rows)))

RECURSIVE JoinSp(_)
JoinSp(parts) ==
    IF Len(parts) = 0 THEN ""
    ELSE IF Len(parts) = 1 THEN parts[1]
    ELSE JoinSp(SubSeq(parts, 1, Len(parts) \div 2)) \o " "
         \o JoinSp(SubSeq(parts, Len(parts) \div 2 + 1, Len(parts)))

TextBlob_joined(cells) ==
                     JoinSp([i \in 1..Len(cells) |-> Lower(_clean(cells[i]))])

\* " ".join(_clean(v).lower() for row in df.head(k).values for v in row
\*          if not _is_blank(v))
TextBlob(rows, k) ==
    TextBlob_joined(SelectSeq(FlatCells(FirstRows(rows, k)), LAMBDA v : ~_is_blank(v)))

\* df.notna().sum().sum()
NotNaCount(rows) == Len(SelectSeq(FlatCells(rows), LAMBDA v : v.k # "none"))

SheetNames(all_sheets) == [i \in 1..Len(all_sheets) |-> all_sheets[i].name]

\* all_sheets[name]
SheetRows(all_sheets, name) ==
    all_sheets[CHOOSE i \in 1..Len(all_sheets) : all_sheets[i].name = name].rows

RECURSIVE SortByNotNaDesc(_)
SortByNotNaDesc_rest(sheets, best) ==
        <<sheets[best].name>>
        \o SortByNotNaDesc(SubSeq(sheets, 1, best - 1)
                           \o SubSeq(sheets, best + 1, Len(sheets)))

\* sorted(all_sheets.keys(), key=notna count, reverse=True): a stable sort,
\* so among equal counts the sheet order is kept.
SortByNotNaDesc(sheets) ==
    IF Len(sheets) = 0 THEN << >>
    ELSE SortByNotNaDesc_rest(sheets, SetMin({i \in 1..Len(sheets) :
                                            \A j \in 1..Len(sheets) :
                                                NotNaCount(sheets[j].rows) <= NotNaCount(sheets[i].rows)}))

\* Results of a call that may raise.
Return(v) == [raised |-> FALSE, value |-> v, msg |-> ""]
Raise(m) == [raised |-> TRUE, value |-> None, msg |-> m]

(***************************************************************************)
(* File-type detection                                                     *)
(***************************************************************************)
FileTypes == <<"SOA", "INVOICE_LIST", "OPPORTUNITY_TRACKER", "SHOP_VISIT", "SVRG_MASTER">>

_TYPE_SIGNALS ==
    [SOA |-> <<"statement of account", "lpi rate", "lpi rate >", "customer name:",
               "totalcare charges", "customer responsible charges",
               "spare parts charges", "late payment interest", "credits usable",
               "total overdue">>,
     INVOICE_LIST |-> <<"reference key 3", "amount in doc. curr.", "net due date",
                        "document date", "document currency">>,
     OPPORTUNITY_TRACKER |->
         <<"opp log sheet", "type of opportunity", "external probability",
           "internal complexity", "evaluation level", "term benefit", "away day date",
           "ict estimates", "commercial optimisation", "profit opportunities tracker",
           "account management evaluations", "cash reciepts", "in year profit",
           "existing deal", "new deal", "resource prioritization",
           "contracting actuals", "financial criteria">>,
     SHOP_VISIT |-> <<"event item part number", "event item serial number",
                      "action code", "rework level", "service event number",
                      "shopvisit_type", "shopvisit_location">>,
     SVRG_MASTER |-> <<"trent 900 guarantee", "trent 900 guarantee administration",
                       "claims summary", "event entry", "hptb", "svrg", "esvrg",
                       "enhanced guarantees">>]

_SHEET_NAME_BOOSTS ==
    << <<"soa", "SOA">>, <<"soa summary", "SOA">>, <<"soa 26.1", "SOA">>,
       <<"l2", "OPPORTUNITY_TRACKER">>, <<"l3", "OPPORTUNITY_TRACKER">>,
       <<"mea log", "OPPORTUNITY_TRACKER">>, <<"opps and threats", "OPPORTUNITY_TRACKER">>,
       <<"date input", "OPPORTUNITY_TRACKER">>, <<"count", "OPPORTUNITY_TRACKER">>,
       <<"sum", "OPPORTUNITY_TRACKER">>, <<"timeline", "OPPORTUNITY_TRACKER">>,
       <<"input", "OPPORTUNITY_TRACKER">>, <<"cover", "OPPORTUNITY_TRACKER">>,
       <<"menu", "SVRG_MASTER">>, <<"claims summary", "SVRG_MASTER">>,
       <<"event entry", "SVRG_MASTER">>, <<"glossary_2", "SHOP_VISIT">> >>

_SHEET_PREFIX_BOOSTS == << <<"report page", "SHOP_VISIT">>, <<"soa ", "SOA">> >>

SheetScore_points(ftype, sn_lower, blob) ==
        8 * Cardinality({i \in 1..Len(_SHEET_NAME_BOOSTS) :
                            _SHEET_NAME_BOOSTS[i] = <<sn_lower, ftype>>})
        + 8 * Cardinality({i \in 1..Len(_SHEET_PREFIX_BOOSTS) :
                            /\ _SHEET_PREFIX_BOOSTS[i][2] = ftype
                            /\ StartsWith(sn_lower, _SHEET_PREFIX_BOOSTS[i][1])})
        + Cardinality({i \in 1..Len(_TYPE_SIGNALS[ftype]) :
                            Contains(blob, _TYPE_SIGNALS[ftype][i])})

\* The points one sheet adds to one type's score.
SheetScore(sheet, ftype) ==
    SheetScore_points(ftype, Strip(Lower(sheet.name)), TextBlob(sheet.rows, 25))

TypeScore(all_sheets, ftype) ==
    SumSeq([i \in 1..Len(all_sheets) |-> SheetScore(all_sheets[i], ftype)])
\* The variant that returns the first type, in dict order, that scored at all.
detect_file_type_first(scores) ==
    IF \A i \in 1..Len(scores) : scores[i] <= 0 THEN "UNKNOWN"
    ELSE FileTypes[SetMin({i \in 1..Len(scores) : scores[i] > 0})]

detect_file_type_best(scores) ==
        IF \A i \in 1..Len(scores) : scores[i] <= 0 THEN "UNKNOWN"
        ELSE FileTypes[SetMin({i \in 1..Len(scores) :
                                \A j \in 1..Len(scores) : scores[j] <= scores[i]})]

\* max(scores, key=scores.get): the first type, in dict order, with the top score.
detect_file_type(all_sheets) ==
    detect_file_type_best([i \in 1..Len(FileTypes) |-> TypeScore(all_sheets, FileTypes[i])])

(***************************************************************************)
(* Date coercion                                                           *)
(***************************************************************************)
IsLeap(y) == (y % 4 = 0 /\ y % 100 # 0) \/ y % 400 = 0

DaysInMonth(y, m) ==
    IF m = 2 THEN (IF IsLeap(y) THEN 29 ELSE 28)
    ELSE IF m \in {4, 6, 9, 11} THEN 30 ELSE 31

\* _DATE_FMTS as [sep, order]: "%d/%m/%Y" is ["/", "dmY"].
_DATE_FMTS ==
    << [sep |-> "/", order |-> "dmY"], [sep |-> "/", order |-> "mdY"],
       [sep |-> "-", order |-> "Ymd"], [sep |-> "-", order |-> "dmY"],
       [sep |-> "/", order |-> "Ymd"], [sep |-> ".", order |-> "dmY"],
       [sep |-> ".", order |-> "mdY"], [sep |-> "/", order |-> "dmy"],
       [sep |-> "/", order |-> "mdy"] >>

StrpDate_short(fmt) ==
             fmt.order \in {"dmy", "mdy"}

StrpDate_date(y, m, d) ==
        IF y >= 1 /\ m \in 1..12 /\ d >= 1 /\ d <= DaysInMonth(y, m)
        THEN y * 10000 + m * 100 + d
        ELSE -1

StrpDate_century(fmt, y0) ==
        IF StrpDate_short(fmt) THEN (IF y0 <= 68 THEN 2000 + y0 ELSE 1900 + y0) ELSE y0

StrpDate_fields(fmt, ys, ms, ds) ==
        IF /\ AllDigits(ys) /\ AllDigits(ms) /\ AllDigits(ds)
           /\ Len(ys) = (IF StrpDate_short(fmt) THEN 2 ELSE 4)
           /\ Len(ms) \in {1, 2} /\ Len(ds) \in {1, 2}
        THEN StrpDate_date(StrpDate_century(fmt, StrToNat(ys)), StrToNat(ms), StrToNat(ds))
        ELSE -1

StrpDate_ordered(fmt, a, b, c) ==
        IF fmt.order \in {"dmY", "dmy"} THEN StrpDate_fields(fmt, c, b, a)
        ELSE IF fmt.order = "Ymd" THEN StrpDate_fields(fmt, a, b, c)
        ELSE StrpDate_fields(fmt, c, a, b)

StrpDate_cut(s, fmt, p1, p2) ==
        StrpDate_ordered(fmt, SubSeq(s, 1, p1 - 1), SubSeq(s, p1 + 1, p2 - 1),
                              SubSeq(s, p2 + 1, Len(s)))

StrpDate_seps(s, fmt, P) ==
        IF Cardinality(P) # 2 THEN -1 ELSE StrpDate_cut(s, fmt, SetMin(P), SetMin(P \ {SetMin(P)}))

\* datetime.strptime(s, fmt) for a three-field numeric format: the date as
\* yyyymmdd, or -1 for ValueError.  %d and %m take one or two digits, %Y
\* four, %y two (00-68 is 20xx, 69-99 is 19xx).
StrpDate(s, fmt) ==
    StrpDate_seps(s, fmt, {i \in 1..Len(s) : SubSeq(s, i, i) = fmt.sep})

TryFormats_first(s, fmts, c) ==
                IF c = {} THEN -1 ELSE StrpDate(s, fmts[SetMin(c)])

\* `for fmt in _DATE_FMTS: try: return strptime(s, fmt)`: the date by the
\* first format that parses s, or -1.
TryFormats(s, fmts) ==
    TryFormats_first(s, fmts, {i \in 1..Len(fmts) : StrpDate(s, fmts[i]) # -1})

\* pd.to_datetime(s, dayfirst=True) on text none of the formats took: the
\* lenient parser also reads an ISO date followed by a time of day; on other
\* text of the model's alphabet it raises.  The date as yyyymmdd, or -1.
LenientDate(s) ==
    IF Len(s) = 19 /\ SubSeq(s, 11, 11) = " "
    THEN StrpDate(SubSeq(s, 1, 10), [sep |-> "-", order |-> "Ymd"])
    ELSE -1

_to_date_read(s, strict, lenient) ==
        IF s = "" \/ Lower(s) \in {"nat", "none", "nan"} THEN None
        ELSE IF strict # -1 THEN StrV(IsoDate(strict))
        ELSE IF lenient # -1 THEN StrV(IsoDate(lenient))
        ELSE StrV(s)

_to_date(v) ==
    IF _is_blank(v) THEN None
    ELSE IF v.k = "date" THEN StrV(IsoDate(v.n))
    ELSE _to_date_read(_clean(v), TryFormats(_clean(v), _DATE_FMTS), LenientDate(_clean(v)))

(***************************************************************************)
(* Statement-of-account extractor (parser_universal.py)                    *)
(***************************************************************************)
_SOA_SECTION_KW ==
    <<"credits usable", "totalcare charges", "totalcare",
      "customer responsible charges", "spare parts charges",
      "late payment interest", "other charges", "other credits">>

_SOA_SUMMARY_KW == <<"total", "overdue", "available credit">>

_get_col(row, col_map, field) ==
    IF field \notin DOMAIN col_map \/ col_map[field] >= Len(row) THEN None
    ELSE row[col_map[field] + 1]

_soa_is_section_header_v0(row) ==
          row[1]

\* The section label, or "" for None.
_soa_is_section_header(row, col_map) ==
    IF _is_blank(_soa_is_section_header_v0(row)) \/ IsNum(_soa_is_section_header_v0(row)) THEN ""
    ELSE IF AnyIn(_SOA_SECTION_KW, Lower(_clean(_soa_is_section_header_v0(row)))) THEN _clean(_soa_is_section_header_v0(row))
    ELSE ""

FirstFloat_first(row, c) ==
                IF c = {} THEN None ELSE _to_float(row[SetMin(c)])

\* The first cell of the row that _to_float turns into a number, or None.
FirstFloat(row) ==
    FirstFloat_first(row, {i \in 1..Len(row) : _to_float(row[i]) # None})

_soa_is_summary_row_overdue(row, f) ==
        IF /\ \E i \in 1..Len(row) :
                  /\ ~_is_blank(row[i]) /\ row[i].k = "str"
                  /\ Contains(Lower(_clean(row[i])), "total overdue")
           /\ f # None
        THEN [hit |-> TRUE, kw |-> "total overdue", amt |-> f]
        ELSE [hit |-> FALSE, kw |-> "", amt |-> None]

_soa_is_summary_row_summary(row, col_map, due_val, keyword) ==
        IF ~_is_blank(due_val) /\ due_val.k = "str" /\ AnyIn(_SOA_SUMMARY_KW, keyword)
        THEN [hit |-> TRUE, kw |-> keyword,
              amt |-> _to_float(_get_col(row, col_map, "amount"))]
        ELSE _soa_is_summary_row_overdue(row, FirstFloat(row))

\* (keyword, amount) as [hit |-> TRUE, kw, amt], or hit = FALSE for None.
_soa_is_summary_row(row, col_map) ==
    _soa_is_summary_row_summary(row, col_map, _get_col(row, col_map, "due_date"),
                                              Lower(_clean(_get_col(row, col_map, "due_date"))))

\* float(v) succeeds: a number, or text that reads as one (a date raises
\* TypeError, other text ValueError; both are caught).
FloatOk(v) == IsNum(v) \/ (v.k = "str" /\ PyFloat(v.s).ok)

_soa_is_data_row_data(v0, ref, amt) ==
        \/ ~_is_blank(v0) /\ FloatOk(v0) /\ amt # None
        \/ ~_is_blank(ref) /\ amt # None

_soa_is_data_row(row, col_map) ==
    _soa_is_data_row_data(_get_col(row, col_map, "company_code"), _get_col(row, col_map, "reference"),
                          _to_float(_get_col(row, col_map, "amount")))

_soa_extract_item(row, col_map) ==
    [company_code |-> _to_str_ref(_get_col(row, col_map, "company_code")),
     account |-> _to_str_ref(_get_col(row, col_map, "account")),
     reference |-> _to_str_ref(_get_col(row, col_map, "reference")),
     doc_date |-> _to_date(_get_col(row, col_map, "doc_date")),
     due_date |-> _to_date(_get_col(row, col_map, "due_date")),
     amount |-> _to_float(_get_col(row, col_map, "amount")),
     currency |-> IF _clean(_get_col(row, col_map, "currency")) = "" THEN StrV("USD")
                  ELSE StrV(_clean(_get_col(row, col_map, "currency"))),
     text |-> CleanOrNone(_get_col(row, col_map, "text")),
     assignment |-> CleanOrNone(_get_col(row, col_map, "assignment")),
     rr_comments |-> CleanOrNone(_get_col(row, col_map, "rr_comments")),
     action_owner |-> CleanOrNone(_get_col(row, col_map, "action_owner")),
     days_late |-> _to_float(_get_col(row, col_map, "days_late")),
     customer_comments |-> CleanOrNone(_get_col(row, col_map, "customer_comments")),
     po_reference |-> CleanOrNone(_get_col(row, col_map, "po_reference")),
     lpi_cumulated |-> _to_float(_get_col(row, col_map, "lpi_cumulated"))]

_classify_section_nl(name) ==
          Lower(name)

_classify_section(name) ==
    IF Contains(_classify_section_nl(name), "credit") THEN "credits"
    ELSE IF Contains(_classify_section_nl(name), "totalcare") THEN "totalcare"
    ELSE IF Contains(_classify_section_nl(name), "spare") \/ Contains(_classify_section_nl(name), "parts") THEN "spare_parts"
    ELSE IF Contains(_classify_section_nl(name), "late payment") \/ Contains(_classify_section_nl(name), "lpi")
            \/ Contains(_classify_section_nl(name), "interest") THEN "lpi"
    ELSE IF Contains(_classify_section_nl(name), "customer responsible") \/ Contains(_classify_section_nl(name), "crc") THEN "crc"
    ELSE "charges"

NewSection(name, section_type) ==
    [name |-> name, section_type |-> section_type, items |-> << >>,
     total |-> None, overdue |-> None, available_credit |-> None]

\* re.search(r"customer\s+n[o..]", sl), over the ASCII alphabet of the model.
CustomerNoIn(sl) ==
    \E i \in 1..Len(sl) : \E j \in (i + 9)..Len(sl) :
        /\ SubSeq(sl, i, i + 7) = "customer"
        /\ \A k \in (i + 8)..(j - 1) : SubSeq(sl, k, k) = " "
        /\ SubSeq(sl, j, j) = "n"
        /\ j + 1 <= Len(sl) /\ SubSeq(sl, j + 1, j + 1) = "o"

\* range(j + 1, min(j + 6, len(row))) as 1-based cell positions.
RightOf(row, j) == (j + 2)..Min(j + 6, Len(row))

_look_right_first(row, c) ==
                IF c = {} THEN None ELSE row[SetMin(c)]

\* _look_right(j, row): the first non-blank cell there, or None.
_look_right(start_j, row) ==
    _look_right_first(row, {k \in RightOf(row, start_j) : ~_is_blank(row[k])})

FirstRight_first(row, to_x(_), c) ==
                IF c = {} THEN None ELSE to_x(row[SetMin(c)])

\* The first cell right of j that to_x turns into something, converted; or None.
FirstRight(row, j, to_x(_)) ==
    FirstRight_first(row, to_x, {k \in RightOf(row, j) : to_x(row[k]) # None})

MetaCell_cell(metadata, s, sl, v, f, d) ==
        IF Contains(sl, "statement of account") THEN
            [metadata EXCEPT !.title = StrV(s)]
        ELSE IF Contains(sl, "customer name") /\ metadata.customer_name = None THEN
            IF v # None THEN [metadata EXCEPT !.customer_name = StrV(_clean(v))]
            ELSE metadata
        ELSE IF CustomerNoIn(sl) /\ ~Contains(sl, "name") THEN
            IF v # None THEN [metadata EXCEPT !.customer_number = StrV(_clean(v))]
            ELSE metadata
        ELSE IF Contains(sl, "contact email") THEN
            IF v # None THEN [metadata EXCEPT !.contact_email = StrV(_clean(v))]
            ELSE metadata
        ELSE IF Contains(sl, "lpi rate") THEN
            IF f # None THEN [metadata EXCEPT !.lpi_rate = f] ELSE metadata
        ELSE IF Contains(sl, "today") THEN
            IF d # None THEN [metadata EXCEPT !.report_date = d] ELSE metadata
        ELSE IF Contains(sl, "average days late") \/ Contains(sl, "avg days late") THEN
            IF f # None THEN [metadata EXCEPT !.avg_days_late = f] ELSE metadata
        ELSE metadata

\* The body of the metadata scan for cell j (0-based) of a row.
MetaCell(metadata, row, j) ==
    IF _is_blank(row[j + 1]) THEN metadata
    ELSE MetaCell_cell(metadata, _clean(row[j + 1]), Lower(_clean(row[j + 1])), _look_right(j, row),
                                 FirstRight(row, j, _to_float), FirstRight(row, j, _to_date))

RECURSIVE MetaRow(_, _, _)
MetaRow_next(metadata, row, j, scanned) ==
                     IF Eager(scanned) THEN MetaRow(scanned, row, j + 1) ELSE metadata

\* `for j, val in enumerate(row)` from cell j on.
MetaRow(metadata, row, j) ==
    IF j >= Len(row) THEN metadata ELSE MetaRow_next(metadata, row, j, MetaCell(metadata, row, j))

RECURSIVE MetaScan(_, _, _)
MetaScan_next(metadata, rows, r, scanned) ==
                     IF Eager(scanned) THEN MetaScan(scanned, rows, r + 1) ELSE metadata

\* `for row in rows[:15]` from row r (1-based) on.
MetaScan(metadata, rows, r) ==
    IF r > Min(15, Len(rows)) THEN metadata ELSE MetaScan_next(metadata, rows, r, MetaRow(metadata, rows[r], 0))

SoaHeaderKw ==
    <<"reference", "amount", "document", "company code", "days late",
      "assignment", "net due">>

\* match_count of one row in the header discovery.
SoaMatchCount(row) ==
    Cardinality({i \in 1..Len(row) :
        ~_is_blank(row[i]) /\ AnyIn(SoaHeaderKw, Lower(_clean(row[i])))})

SoaHeaderRow_first(c) ==
                IF c = {} THEN -1 ELSE SetMin(c) - 1

\* The 0-based index of the first of rows[:20] with match_count >= 3, or -1.
SoaHeaderRow(rows) ==
    SoaHeaderRow_first({i \in 1..Min(20, Len(rows)) : SoaMatchCount(rows[i]) >= 3})

SoaWalkRow_opened(acc) ==
              IF Len(acc.cur) = 0 THEN <<NewSection("General", "charges")>>
              ELSE acc.cur

\* The data branch that opens no section: a row met while none is open is
\* dropped.
SoaWalkRow_data_dropping(acc, item) ==
        IF Len(acc.cur) = 0 \/ item.amount = None THEN acc
        ELSE [acc EXCEPT !.cur = <<[acc.cur[1] EXCEPT !.items = Append(@, item)]>>]

SoaWalkRow_data(acc, item) ==
        [acc EXCEPT !.cur = IF item.amount # None
                            THEN <<[SoaWalkRow_opened(acc)[1] EXCEPT !.items = Append(@, item)]>>
                            ELSE SoaWalkRow_opened(acc)]

SoaWalkRow_header(acc, row, col_map, sec_name) ==
        IF sec_name # "" THEN
            [acc EXCEPT !.sections = @ \o acc.cur,
                        !.cur = <<NewSection(sec_name, _classify_section(sec_name))>>]
        ELSE IF _soa_is_data_row(row, col_map) THEN
            SoaWalkRow_data(acc, _soa_extract_item(row, col_map))
        ELSE acc

\* The summary branch with the section's overdue tested first, so that a
\* "total overdue" row lands in the open section.
SoaWalkRow_summary_overdue_first(acc, summary) ==
        IF Len(acc.cur) > 0 /\ Contains(summary.kw, "overdue") THEN
            [acc EXCEPT !.cur[1].overdue = summary.amt]
        ELSE IF Contains(summary.kw, "total overdue") THEN
            [acc EXCEPT !.total_overdue = summary.amt]
        ELSE IF Len(acc.cur) > 0 THEN
            IF Contains(summary.kw, "total") THEN
                [acc EXCEPT !.cur[1].total = summary.amt]
            ELSE IF Contains(summary.kw, "available credit") THEN
                [acc EXCEPT !.cur[1].available_credit = summary.amt]
            ELSE acc
        ELSE acc

\* The summary branch: the grand total overdue, else a total of the open
\* section.
SoaWalkRow_summary(acc, summary) ==
        IF Contains(summary.kw, "total overdue") THEN
            [acc EXCEPT !.total_overdue = summary.amt]
        ELSE IF Len(acc.cur) > 0 THEN
            IF Contains(summary.kw, "total") /\ ~Contains(summary.kw, "overdue") THEN
                [acc EXCEPT !.cur[1].total = summary.amt]
            ELSE IF Contains(summary.kw, "overdue") THEN
                [acc EXCEPT !.cur[1].overdue = summary.amt]
            ELSE IF Contains(summary.kw, "available credit") THEN
                [acc EXCEPT !.cur[1].available_credit = summary.amt]
            ELSE acc
        ELSE acc

\* The walk with the section-title check placed before the summary check.
SoaWalkRow_section_first(acc, row, col_map, summary) ==
        IF _soa_is_section_header(row, col_map) # "" THEN
            SoaWalkRow_header(acc, row, col_map, _soa_is_section_header(row, col_map))
        ELSE IF summary.hit THEN SoaWalkRow_summary(acc, summary)
        ELSE SoaWalkRow_header(acc, row, col_map, "")

SoaWalkRow_walk(acc, row, col_map, summary) ==
        IF summary.hit THEN SoaWalkRow_summary(acc, summary)
        ELSE SoaWalkRow_header(acc, row, col_map, _soa_is_section_header(row, col_map))

\* One pass of the row walk.  acc.cur is current_section: << >> for None,
\* else the one open section.
SoaWalkRow(acc, row, col_map) ==
    IF Len(_non_blank_vals(row)) = 0 THEN acc
    ELSE SoaWalkRow_walk(acc, row, col_map, _soa_is_summary_row(row, col_map))

RECURSIVE SoaWalk(_, _, _, _)
SoaWalk_next(acc, rows, i, col_map, walked) ==
                    IF Eager(walked) THEN SoaWalk(walked, rows, i + 1, col_map) ELSE acc

\* `for i in range(header_row_idx + 1, len(rows))` from row i (0-based) on.
SoaWalk(acc, rows, i, col_map) ==
    IF i >= Len(rows) THEN acc ELSE SoaWalk_next(acc, rows, i, col_map, SoaWalkRow(acc, rows[i + 1], col_map))

SoaPrimarySheet_pick(preferred_order, hits) ==
        IF hits # {} THEN preferred_order[SetMin(hits)] ELSE preferred_order[1]

SoaPrimarySheet_scan(all_sheets, preferred_order) ==
        SoaPrimarySheet_pick(preferred_order,
                             {i \in 1..Len(preferred_order) :
                                AnyIn(<<"customer name", "lpi rate", "totalcare", "amount in doc">>,
                                      TextBlob(SheetRows(all_sheets, preferred_order[i]), 20))})

SoaPrimarySheet_order(all_sheets, soa) ==
                  SoaPrimarySheet_scan(all_sheets, IF Len(soa) > 0 THEN soa ELSE SortByNotNaDesc(all_sheets))

\* The primary data sheet of _parse_soa: a name.
SoaPrimarySheet(all_sheets) ==
    SoaPrimarySheet_order(all_sheets, SelectSeq(SheetNames(all_sheets),
                                                LAMBDA n : Contains(Lower(n), "soa")
                                                           /\ ~Contains(Lower(n), "summary")))

\* The items of the sections, in order, and their amounts (hundredths).
RECURSIVE AllItems(_)
AllItems(sections) ==
    IF Len(sections) = 0 THEN << >>
    ELSE IF Len(sections) = 1 THEN sections[1].items
    ELSE AllItems(SubSeq(sections, 1, Len(sections) \div 2))
         \o AllItems(SubSeq(sections, Len(sections) \div 2 + 1, Len(sections)))

ItemAmounts_amounts(items) ==
                      [i \in 1..Len(items) |-> items[i].amount.n]

ItemAmounts(sections) ==
    ItemAmounts_amounts(AllItems(sections))

\* `s["overdue"] or 0`
OrZero(v) == IF v = None THEN 0 ELSE v.n

SoaGrandTotals_totals(total_overdue, overdue, all_amounts) ==
        [total_overdue |-> IF total_overdue # None THEN total_overdue
                           ELSE IF overdue = 0 THEN None ELSE FloatV(overdue),
         total_credits |-> FloatV(SumSeq(SelectSeq(all_amounts, LAMBDA a : a < 0))),
         net_balance |-> FloatV(SumSeq(all_amounts))]

SoaGrandTotals(sections, total_overdue) ==
    SoaGrandTotals_totals(total_overdue, SumSeq([i \in 1..Len(sections) |->
                                                  IF OrZero(sections[i].overdue) > 0
                                                  THEN OrZero(sections[i].overdue) ELSE 0]),
                                         ItemAmounts(sections))

RECURSIVE SummaryRows(_, _)
SummaryRows_next(rows, d, read) ==
        IF Eager(read) THEN SummaryRows(SubSeq(rows, 2, Len(rows)), read) ELSE d

SummaryRows_pair(d, label, val) ==
                        IF val # None THEN (label :> val) @@ d ELSE d

SummaryRows_row(d, nb_cells) ==
        IF Len(nb_cells) >= 2
        THEN SummaryRows_pair(d, _clean(nb_cells[1]), _to_float(nb_cells[Len(nb_cells)]))
        ELSE d

\* The label -> value dict read from the rows of the summary sheet.
SummaryRows(rows, d) ==
    IF Len(rows) = 0 THEN d
    ELSE SummaryRows_next(rows, d, SummaryRows_row(d, SelectSeq(rows[1], LAMBDA v : ~_is_blank(v))))

SoaSummarySheet_first(all_sheets, c) ==
        IF c = {} THEN EmptyMap ELSE SummaryRows(all_sheets[SetMin(c)].rows, EmptyMap)

\* The first sheet whose name contains "summary" feeds summary_sheet.
SoaSummarySheet(all_sheets) ==
    SoaSummarySheet_first(all_sheets, {i \in 1..Len(all_sheets) : Contains(Lower(all_sheets[i].name), "summary")})

AgingBucket_d(item) ==
         item.days_late

AgingBucket(item) ==
    IF AgingBucket_d(item) = None \/ AgingBucket_d(item).n <= 0 THEN "current"
    ELSE IF AgingBucket_d(item).n <= 3000 THEN "1_30_days"
    ELSE IF AgingBucket_d(item).n <= 6000 THEN "31_60_days"
    ELSE IF AgingBucket_d(item).n <= 9000 THEN "61_90_days"
    ELSE IF AgingBucket_d(item).n <= 18000 THEN "91_180_days"
    ELSE "over_180_days"

SoaAging_buckets(items) ==
        [b \in {"current", "1_30_days", "31_60_days", "61_90_days", "91_180_days",
                "over_180_days"} |->
            FloatV(SumSeq([i \in 1..Len(items) |->
                        IF AgingBucket(items[i]) = b THEN items[i].amount.n ELSE 0]))]

SoaAging(sections) ==
    SoaAging_buckets(SelectSeq(AllItems(sections), LAMBDA it : OrZero(it.amount) > 0))

_parse_soa_result(all_sheets, metadata, sections, total_overdue) ==
        Return([file_type |-> "SOA",
                metadata |-> metadata,
                sections |-> sections,
                grand_totals |-> SoaGrandTotals(sections, total_overdue),
                summary_sheet |-> SoaSummarySheet(all_sheets),
                aging_buckets |-> SoaAging(sections),
                all_sheets |-> SheetNames(all_sheets),
                errors |-> << >>])

_parse_soa_flush(all_sheets, metadata, walked) ==
        _parse_soa_result(all_sheets, metadata, walked.sections \o walked.cur, walked.total_overdue)

_parse_soa_walk(all_sheets, filename, primary_sheet, rows, header_row_idx, col_map) ==
        _parse_soa_flush(all_sheets, MetaScan([title |-> None, customer_name |-> None,
                                               customer_number |-> None, contact_email |-> None,
                                               lpi_rate |-> None, report_date |-> None,
                                               avg_days_late |-> None, source_file |-> filename,
                                               source_sheet |-> primary_sheet], rows, 1),
                                     SoaWalk([sections |-> << >>, cur |-> << >>, total_overdue |-> None],
                                             rows, header_row_idx + 1, col_map))

_parse_soa_header(all_sheets, filename, primary_sheet, rows, found) ==
        _parse_soa_walk(all_sheets, filename, primary_sheet, rows,
                                              IF found = -1 THEN 6 ELSE found,
                                              IF found = -1 THEN _SOA_POSITIONAL ELSE _map_soa_columns(rows[found + 1]))

_parse_soa_sheet(all_sheets, filename, primary_sheet, rows) ==
                                  _parse_soa_header(all_sheets, filename, primary_sheet, rows, SoaHeaderRow(rows))

_parse_soa_primary(all_sheets, filename, primary_sheet) ==
                              _parse_soa_sheet(all_sheets, filename, primary_sheet, SheetRows(all_sheets, primary_sheet))

_parse_soa(all_sheets, filename) ==
    _parse_soa_primary(all_sheets, filename, SoaPrimarySheet(all_sheets))

(***************************************************************************)
(* Invoice-register extractor and the generic extractor                    *)
(***************************************************************************)
\* The message of the IndexError pandas raises for .iloc past the end.
OutOfBounds == "single positional indexer is out-of-bounds"

_find_header_row_n(rows, max_scan) ==
         Min(max_scan, Len(rows))

_find_header_row_score(rows, required_kws, i) ==
                Cardinality({j \in 1..Len(rows[i]) :
                    ~_is_blank(rows[i][j])
                    /\ AnyIn(required_kws, Lower(_clean(rows[i][j])))})

_find_header_row_best(rows, required_kws, max_scan) ==
            {i \in 1.._find_header_row_n(rows, max_scan) : _find_header_row_score(rows, required_kws, i) > 0 /\ \A k \in 1.._find_header_row_n(rows, max_scan) : _find_header_row_score(rows, required_kws, k) <= _find_header_row_score(rows, required_kws, i)}

\* The 0-based row of the first max_scan rows with the most cells that hold
\* a keyword; row 0 when no cell does.
_find_header_row(rows, required_kws, max_scan) ==
    IF _find_header_row_best(rows, required_kws, max_scan) = {} THEN 0 ELSE SetMin(_find_header_row_best(rows, required_kws, max_scan)) - 1

\* row.iloc[col_map[field]] if field in col_map else None
CellOr(row, col_map, field) ==
    IF field \in DOMAIN col_map THEN row[col_map[field] + 1] ELSE None

ListOfSet_q(S) ==
         CHOOSE p \in [1..Cardinality(S) -> S] : \A x \in S : \E i \in DOMAIN p : p[i] = x

\* list(S) of a set of at most two strings: the iteration order of a str set
\* depends on the hash seed of the process.
ListOfSet(S, hash_seed) ==
    IF hash_seed = 0 THEN ListOfSet_q(S) ELSE [i \in 1..Len(ListOfSet_q(S)) |-> ListOfSet_q(S)[Len(ListOfSet_q(S)) + 1 - i]]

InvRow_cell(col_map, row, field) ==
                        CellOr(row, col_map, field)

InvRow_currency(c) ==
                   IF c = "" THEN StrV("USD") ELSE StrV(c)

InvRow_pick(i, col_map, row, ref, doc_date, due_date, text, assign, amt) ==
        IF Len(_non_blank_vals(row)) = 0 THEN [kind |-> "skip"]
        ELSE IF amt = None /\ ref = None THEN [kind |-> "skip"]
        ELSE IF ref = None /\ doc_date = None /\ due_date = None /\ text = None
                /\ assign = None
            THEN [kind |-> "subtotal", row_index |-> i + 1, amount |-> amt]
        ELSE [kind |-> "item", reference |-> ref, doc_date |-> doc_date,
              due_date |-> due_date,
              currency |-> InvRow_currency(_clean(InvRow_cell(col_map, row, "currency"))), amount |-> amt,
              reference_key3 |-> CleanOrNone(InvRow_cell(col_map, row, "reference_key3")),
              text |-> text, assignment |-> assign]

InvRow_read(i, col_map, row) ==
        InvRow_pick(i, col_map, row, _to_str_ref(row[Get(col_map, "reference", 0) + 1]),
                                _to_date(InvRow_cell(col_map, row, "doc_date")), _to_date(InvRow_cell(col_map, row, "due_date")),
                                CleanOrNone(InvRow_cell(col_map, row, "text")), CleanOrNone(InvRow_cell(col_map, row, "assignment")),
                                _to_float(row[Get(col_map, "amount", 4) + 1]))

\* One pass of the item loop of _parse_invoice_list for row i (0-based):
\* kind is "skip", "subtotal" or "item".
InvRow(rows, i, col_map) ==
    InvRow_read(i, col_map, rows[i + 1])

_parse_invoice_list_result(all_sheets, filename, hash_seed, sheet_name, items, totals, amounts) ==
        Return(
            [file_type |-> "INVOICE_LIST",
             metadata |-> [source_file |-> filename, source_sheet |-> sheet_name,
                           total_items |-> Len(items),
                           currencies |-> ListOfSet({items[i].currency.s :
                                                        i \in 1..Len(items)}, hash_seed)],
             items |-> items,
             totals |-> [total_amount |-> FloatV(SumSeq(amounts)),
                         total_positive |-> FloatV(SumSeq(SelectSeq(amounts,
                                                        LAMBDA a : a > 0))),
                         total_negative |-> FloatV(SumSeq(SelectSeq(amounts,
                                                        LAMBDA a : a < 0))),
                         item_count |-> Len(items)],
             sheet_subtotals |-> [i \in 1..Len(totals) |->
                                    [row_index |-> totals[i].row_index,
                                     amount |-> totals[i].amount]],
             all_sheets |-> SheetNames(all_sheets),
             errors |-> << >>])

_parse_invoice_list_summed(all_sheets, filename, hash_seed, sheet_name, items, totals) ==
        _parse_invoice_list_result(all_sheets, filename, hash_seed, sheet_name, items, totals,
                                                                    [i \in 1..Len(items) |-> OrZero(items[i].amount)])

_parse_invoice_list_listed(all_sheets, filename, hash_seed, sheet_name, picked, totals) ==
        _parse_invoice_list_summed(all_sheets, filename, hash_seed, sheet_name,
                                                                    [i \in 1..Len(picked) |->
                                                                         [reference |-> picked[i].reference, doc_date |-> picked[i].doc_date,
                                                                          due_date |-> picked[i].due_date, currency |-> picked[i].currency,
                                                                          amount |-> picked[i].amount,
                                                                          reference_key3 |-> picked[i].reference_key3,
                                                                          text |-> picked[i].text, assignment |-> picked[i].assignment]],
                                                                    totals)

_parse_invoice_list_split(all_sheets, filename, hash_seed, sheet_name, read) ==
        _parse_invoice_list_listed(all_sheets, filename, hash_seed, sheet_name, SelectSeq(read, LAMBDA r : r.kind = "item"),
                                                                    SelectSeq(read, LAMBDA r : r.kind = "subtotal"))

\* row.iloc[col_map.get("amount", 4)] on a row of at most 4 cells
_parse_invoice_list_past_end(rows, hdr_idx, col_map) ==
        \E i \in (hdr_idx + 1)..(Len(rows) - 1) :
            /\ Len(_non_blank_vals(rows[i + 1])) > 0
            /\ Get(col_map, "amount", 4) >= Len(rows[i + 1])

_parse_invoice_list_loop(all_sheets, filename, hash_seed, sheet_name, rows, hdr_idx, col_map) ==
        IF Len(rows) = 0 \/ _parse_invoice_list_past_end(rows, hdr_idx, col_map) THEN Raise(OutOfBounds)
        ELSE _parse_invoice_list_split(all_sheets, filename, hash_seed, sheet_name, [i \in 1..(Len(rows) - hdr_idx - 1) |->
                                                                                         InvRow(rows, hdr_idx + i, col_map)])

_parse_invoice_list_header(all_sheets, filename, hash_seed, sheet_name, rows, hdr_idx) ==
        _parse_invoice_list_loop(all_sheets, filename, hash_seed, sheet_name, rows, hdr_idx,
                                                                  _map_generic_columns(rows[hdr_idx + 1], _INV_COL_ALIASES))

_parse_invoice_list_sheet(all_sheets, filename, hash_seed, sheet_name, rows) ==
        _parse_invoice_list_header(all_sheets, filename, hash_seed, sheet_name, rows,
                                                                    _find_header_row(rows,
                                                                        <<"reference", "amount", "document", "net due", "currency">>, 20))

_parse_invoice_list_first(all_sheets, filename, hash_seed, sheet_name) ==
                         _parse_invoice_list_sheet(all_sheets, filename, hash_seed, sheet_name, SheetRows(all_sheets, sheet_name))

_parse_invoice_list(all_sheets, filename, hash_seed) ==
    _parse_invoice_list_first(all_sheets, filename, hash_seed, SortByNotNaDesc(all_sheets)[1])

\* A cell as _parse_unknown stores it: a date as ISO text, a whole float as int.
UnknownCell(v) ==
    IF v.k = "date" THEN StrV(IsoDate(v.n))
    ELSE IF v.k = "float" /\ v.n % 100 = 0 THEN IntV(v.n \div 100)
    ELSE v

UnknownSheet_rec(row, headers) ==
        LET filled == {j \in 1..Len(headers) : ~_is_blank(row[j])}
        IN  [h \in {headers[j] : j \in filled} |->
                UnknownCell(row[CHOOSE j \in filled :
                    /\ headers[j] = h
                    /\ \A k \in filled : headers[k] = h => k <= j])]

UnknownSheet_table(headers, recs) ==
                            [headers |-> headers, rows |-> recs, row_count |-> Len(recs)]

UnknownSheet_read(headers, body) ==
                           UnknownSheet_table(headers, [i \in 1..Len(body) |-> UnknownSheet_rec(body[i], headers)])

UnknownSheet_named(rows, hdr_idx, hdr) ==
        UnknownSheet_read([j \in 1..Len(hdr) |->
                             IF _clean(hdr[j]) = "" THEN "col_" \o NatToStr(j - 1)
                             ELSE _clean(hdr[j])],
                          SelectSeq(SubSeq(rows, hdr_idx + 2, Len(rows)),
                                    LAMBDA row : \E j \in 1..Len(row) : ~_is_blank(row[j])))

UnknownSheet_header(rows, hdr_idx) ==
                       UnknownSheet_named(rows, hdr_idx, rows[hdr_idx + 1])

UnknownSheet_first(rows, wide) ==
                   UnknownSheet_header(rows, IF wide = {} THEN 0 ELSE SetMin(wide) - 1)

\* The entry of sheets_data for one sheet that has rows.
UnknownSheet(rows) ==
    UnknownSheet_first(rows, {i \in 1..Min(10, Len(rows)) : Len(_non_blank_vals(rows[i])) >= 3})

UnknownMessage == "File type could not be determined; generic extraction applied."

\* df.iloc[hdr_idx] raises on a sheet without rows.
_parse_unknown(all_sheets, filename) ==
    IF \E i \in 1..Len(all_sheets) : Len(all_sheets[i].rows) = 0 THEN Raise(OutOfBounds)
    ELSE Return(
        [file_type |-> "UNKNOWN",
         metadata |-> [source_file |-> filename],
         sheets |-> [i \in 1..Len(all_sheets) |->
                        [name |-> all_sheets[i].name,
                         data |-> UnknownSheet(all_sheets[i].rows)]],
         errors |-> <<UnknownMessage>>])

(***************************************************************************)
(* Shop-visit, guarantee-master and opportunity-tracker extractors         *)
(***************************************************************************)
_SV_COL_ALIASES ==
    << [f |-> "part_number", a |-> <<"event item part number", "part number">>],
       [f |-> "serial_number", a |-> <<"event item serial number", "serial number", "esn">>],
       [f |-> "event_datetime", a |-> <<"event date time", "event date", "date">>],
       [f |-> "operator", a |-> <<"operator">>],
       [f |-> "parent_serial", a |-> <<"parent serial number">>],
       [f |-> "registration", a |-> <<"parent item registration", "registration">>],
       [f |-> "action_code", a |-> <<"action code">>],
       [f |-> "rework_level", a |-> <<"rework level">>],
       [f |-> "service_event", a |-> <<"service event number">>],
       [f |-> "hsn", a |-> <<"hsn">>],
       [f |-> "csn", a |-> <<"csn">>],
       [f |-> "hssv", a |-> <<"hssv">>],
       [f |-> "cssv", a |-> <<"cssv">>],
       [f |-> "sv_type", a |-> <<"shopvisit_type", "shop visit type">>],
       [f |-> "sv_location", a |-> <<"shopvisit_location", "shop visit location">>] >>

\* list(table.keys())
AliasFields(table) == [i \in 1..Len(table) |-> table[i].f]

FirstWord_c(s) ==
         {i \in 1..Len(s) : SubSeq(s, i, i) = " "}

\* pn.split(" ")[0]
FirstWord(s) ==
    IF FirstWord_c(s) = {} THEN s ELSE SubSeq(s, 1, SetMin(FirstWord_c(s)) - 1)

_count_field_val(field, r) ==
              IF r[field] = None THEN "Unknown" ELSE r[field].s

\* _count_field(records, field): value (or "Unknown") -> number of records.
_count_field(records, field) ==
    [v \in {_count_field_val(field, records[i]) : i \in 1..Len(records)} |->
        Cardinality({i \in 1..Len(records) : _count_field_val(field, records[i]) = v})]

\* The record of one shop-visit row with a serial number.
ShopVisitRec(row, col_map) ==
    [part_number |-> CleanOrNone(_get_col(row, col_map, "part_number")),
     serial_number |-> _to_str_ref(_get_col(row, col_map, "serial_number")),
     event_datetime |-> _to_date(_get_col(row, col_map, "event_datetime")),
     operator |-> CleanOrNone(_get_col(row, col_map, "operator")),
     parent_serial |-> _to_str_ref(_get_col(row, col_map, "parent_serial")),
     registration |-> CleanOrNone(_get_col(row, col_map, "registration")),
     action_code |-> CleanOrNone(_get_col(row, col_map, "action_code")),
     rework_level |-> CleanOrNone(_get_col(row, col_map, "rework_level")),
     service_event |-> _to_str_ref(_get_col(row, col_map, "service_event")),
     hsn |-> _to_float(_get_col(row, col_map, "hsn")),
     csn |-> _to_float(_get_col(row, col_map, "csn")),
     hssv |-> _to_float(_get_col(row, col_map, "hssv")),
     cssv |-> _to_float(_get_col(row, col_map, "cssv")),
     sv_type |-> CleanOrNone(_get_col(row, col_map, "sv_type")),
     sv_location |-> CleanOrNone(_get_col(row, col_map, "sv_location"))]

ShopVisitList_action(row, col_map) ==
              Lower(_clean(_get_col(row, col_map, "action_code")))

ShopVisitList_rework(row, col_map) ==
              Lower(_clean(_get_col(row, col_map, "rework_level")))

\* "current_status", "shop_visits" or "maintenance_actions": the list a
\* record goes to.
ShopVisitList(row, col_map) ==
    IF Contains(ShopVisitList_action(row, col_map), "current status") \/ Contains(ShopVisitList_rework(row, col_map), "current status")
    THEN "current_status"
    ELSE IF Contains(ShopVisitList_rework(row, col_map), "shop visit") THEN "shop_visits"
    ELSE "maintenance_actions"

_parse_shop_visit_result(all_sheets, filename, hash_seed, data_sheet, shop_visit_rows, maintenance_rows, current_status_rows, all_serials, part_nums) ==
        Return(
            [file_type |-> "SHOP_VISIT_HISTORY",
             metadata |-> [source_file |-> filename, source_sheet |-> data_sheet,
                           engine_models |-> ListOfSet({FirstWord(pn) : pn \in part_nums},
                                                       hash_seed),
                           total_engines |-> Cardinality(all_serials),
                           \* sorted(all_operators): the set stands for the sorted list
                           operators |-> {shop_visit_rows[i].operator.s :
                                i \in {k \in 1..Len(shop_visit_rows) :
                                        /\ shop_visit_rows[k].operator # None
                                        /\ shop_visit_rows[k].operator.s # "NO OPERATOR"}}],
             shop_visits |-> shop_visit_rows,
             maintenance_actions |-> maintenance_rows,
             current_status |-> current_status_rows,
             statistics |-> [total_shop_visits |-> Len(shop_visit_rows),
                             total_maintenance |-> Len(maintenance_rows),
                             total_engines_tracked |-> Cardinality(all_serials),
                             sv_types |-> _count_field(shop_visit_rows, "sv_type"),
                             sv_locations |-> _count_field(shop_visit_rows, "sv_location")],
             all_sheets |-> SheetNames(all_sheets),
             errors |-> << >>])

_parse_shop_visit_models(all_sheets, filename, hash_seed, data_sheet, shop_visit_rows, maintenance_rows, current_status_rows, tracked, typed) ==
        _parse_shop_visit_result(all_sheets, filename, hash_seed, data_sheet, shop_visit_rows, maintenance_rows, current_status_rows,
                                                                  {tracked[i].serial_number.s : i \in 1..Len(tracked)},
                                                                  {typed[i].part_number.s :
                                                                       i \in {k \in 1..Len(typed) : typed[k].part_number # None}})

_parse_shop_visit_lists(all_sheets, filename, hash_seed, data_sheet, shop_visit_rows, maintenance_rows, current_status_rows) ==
        _parse_shop_visit_models(all_sheets, filename, hash_seed, data_sheet, shop_visit_rows, maintenance_rows, current_status_rows,
                                                                  shop_visit_rows \o maintenance_rows,
                                                                  IF Len(shop_visit_rows) > 0 THEN shop_visit_rows ELSE current_status_rows)

_parse_shop_visit_records(b, col_map) ==
                           [i \in 1..Len(b) |-> ShopVisitRec(b[i], col_map)]

_parse_shop_visit_listed(all_sheets, filename, hash_seed, data_sheet, by_list) ==
        _parse_shop_visit_lists(all_sheets, filename, hash_seed, data_sheet, by_list["shop_visits"], by_list["maintenance_actions"],
                                                                 by_list["current_status"])

_parse_shop_visit_sorted(all_sheets, filename, hash_seed, data_sheet, body, col_map) ==
        _parse_shop_visit_listed(all_sheets, filename, hash_seed, data_sheet,
                                                                  [l \in {"shop_visits", "maintenance_actions", "current_status"} |->
                                                                       _parse_shop_visit_records(SelectSeq(body, LAMBDA row : ShopVisitList(row, col_map) = l),
                                                                                                 col_map)])

_parse_shop_visit_mapped(all_sheets, filename, hash_seed, data_sheet, rows, hdr_idx, col_map) ==
        _parse_shop_visit_sorted(all_sheets, filename, hash_seed, data_sheet,
                                                                  SelectSeq(SubSeq(rows, hdr_idx + 2, Len(rows)),
                                                                      LAMBDA row :
                                                                          /\ Len(_non_blank_vals(row)) > 0
                                                                          /\ _to_str_ref(_get_col(row, col_map, "serial_number")) # None),
                                                                  col_map)

_parse_shop_visit_header(all_sheets, filename, hash_seed, data_sheet, rows, hdr_idx) ==
        _parse_shop_visit_mapped(all_sheets, filename, hash_seed, data_sheet, rows, hdr_idx,
                                                                  _map_generic_columns(rows[hdr_idx + 1], _SV_COL_ALIASES))

_parse_shop_visit_sheet(all_sheets, filename, hash_seed, data_sheet, rows) ==
        IF Len(rows) = 0 THEN Raise(OutOfBounds)
        ELSE _parse_shop_visit_header(all_sheets, filename, hash_seed, data_sheet, rows,
                                                                       _find_header_row(rows,
                                                                           AliasFields(_SV_COL_ALIASES) \o <<"action code", "csn", "hsn">>, 20))

_parse_shop_visit_chosen(all_sheets, filename, hash_seed, data_sheet) ==
                          _parse_shop_visit_sheet(all_sheets, filename, hash_seed, data_sheet, SheetRows(all_sheets, data_sheet))

_parse_shop_visit_pick(all_sheets, filename, hash_seed, names, named) ==
                          _parse_shop_visit_chosen(all_sheets, filename, hash_seed, IF named = {} THEN names[1] ELSE names[SetMin(named)])

_parse_shop_visit_scan(all_sheets, filename, hash_seed, names) ==
        _parse_shop_visit_pick(all_sheets, filename, hash_seed, names, {i \in 1..Len(names) : Contains(Lower(names[i]), "report")
                                                                                              \/ Contains(Lower(names[i]), "page")})

_parse_shop_visit(all_sheets, filename, hash_seed) ==
    _parse_shop_visit_scan(all_sheets, filename, hash_seed, SheetNames(all_sheets))

_SVRG_CLAIMS_ALIASES ==
    << [f |-> "date", a |-> <<"date">>],
       [f |-> "year", a |-> <<"year">>],
       [f |-> "credit_ref", a |-> <<"credit note reference", "reference">>],
       [f |-> "guarantee", a |-> <<"guarantee">>],
       [f |-> "credit_value", a |-> <<"credit note value", "value">>],
       [f |-> "cumulative_value", a |-> <<"cumulative claim value", "cumulative">>] >>

_SVRG_EVENT_ALIASES ==
    << [f |-> "event_type", a |-> <<"event type", "#", "type">>],
       [f |-> "date", a |-> <<"date">>],
       [f |-> "engine_serial", a |-> <<"engine serial no", "esn", "serial">>],
       [f |-> "aircraft", a |-> <<"a/c no", "aircraft", "a/c">>],
       [f |-> "tsn_tsr", a |-> <<"tsn or tsr", "tsn", "hours">>],
       [f |-> "csn_csr", a |-> <<"csn or csr", "csn", "cycles">>],
       [f |-> "description", a |-> <<"cause of event", "description", "disruption">>],
       [f |-> "qualification",
        a |-> <<"qualified/non-qualified", "qualification", "emirates input">>],
       [f |-> "justification", a |-> <<"justification", "emirates - justification">>],
       [f |-> "rr_input", a |-> <<"rr input", "rr qualification">>],
       [f |-> "rr_justification", a |-> <<"rr - justification", "rr justification">>],
       [f |-> "guarantee_coverage", a |-> <<"guarantee coverage", "coverage">>],
       [f |-> "comments", a |-> <<"further comments", "comments">>] >>

\* `name in all_sheets`
HasSheet(all_sheets, name) == \E i \in 1..Len(all_sheets) : all_sheets[i].name = name

CleanCells_cells(rows, k) ==
             SelectSeq(FlatCells(FirstRows(rows, k)), LAMBDA v : ~_is_blank(v))

\* The non-blank cells of the first k rows, cleaned, in reading order.
CleanCells(rows, k) ==
    [i \in 1..Len(CleanCells_cells(rows, k)) |-> _clean(CleanCells_cells(rows, k)[i])]

FirstWith_c(texts, words) ==
         {i \in 1..Len(texts) : AnyIn(words, Lower(texts[i]))}

\* The first of the texts whose lower case contains one of the words, or None.
FirstWith(texts, words) ==
    IF FirstWith_c(texts, words) = {} THEN None ELSE StrV(texts[SetMin(FirstWith_c(texts, words))])

SvrgClaims_val_v(row, col_map) ==
                           _to_float(_get_col(row, col_map, "credit_value"))

SvrgClaims_nonzero(v) ==
                  v # None /\ v.n # 0

SvrgClaims_rec(row, col_map) ==
        [date |-> _to_date(_get_col(row, col_map, "date")),
         year |-> _to_float(_get_col(row, col_map, "year")),
         credit_ref |-> _to_str_ref(_get_col(row, col_map, "credit_ref")),
         guarantee |-> CleanOrNone(_get_col(row, col_map, "guarantee")),
         credit_value |-> SvrgClaims_val_v(row, col_map),
         cumulative_value |-> _to_float(_get_col(row, col_map, "cumulative_value"))]

SvrgClaims_records(body, col_map) ==
                              [i \in 1..Len(body) |-> SvrgClaims_rec(body[i], col_map)]

SvrgClaims_mapped(rows, hdr_idx, col_map) ==
        SvrgClaims_records(SelectSeq(SubSeq(rows, hdr_idx + 2, Len(rows)),
                               LAMBDA row : \/ _to_date(_get_col(row, col_map, "date")) # None
                                            \/ SvrgClaims_nonzero(SvrgClaims_val_v(row, col_map))),
                           col_map)

SvrgClaims_header(rows, hdr_idx) ==
        SvrgClaims_mapped(rows, hdr_idx, _map_generic_columns(rows[hdr_idx + 1], _SVRG_CLAIMS_ALIASES))

SvrgClaims(rows) ==
    SvrgClaims_header(rows, _find_header_row(rows, <<"date", "credit note", "guarantee", "cumulative">>, 20))

SvrgEvents_txt(row, col_map, f) ==
                            CleanOrNone(_get_col(row, col_map, f))

SvrgEvents_rec(row, col_map) ==
        [event_type |-> SvrgEvents_txt(row, col_map, "event_type"),
         date |-> _to_date(_get_col(row, col_map, "date")),
         engine_serial |-> _to_str_ref(_get_col(row, col_map, "engine_serial")),
         aircraft |-> SvrgEvents_txt(row, col_map, "aircraft"),
         tsn_tsr |-> _to_float(_get_col(row, col_map, "tsn_tsr")),
         csn_csr |-> _to_float(_get_col(row, col_map, "csn_csr")),
         description |-> SvrgEvents_txt(row, col_map, "description"),
         qualification |-> SvrgEvents_txt(row, col_map, "qualification"),
         justification |-> SvrgEvents_txt(row, col_map, "justification"),
         rr_input |-> SvrgEvents_txt(row, col_map, "rr_input"),
         rr_justification |-> SvrgEvents_txt(row, col_map, "rr_justification"),
         guarantee_coverage |-> SvrgEvents_txt(row, col_map, "guarantee_coverage"),
         comments |-> SvrgEvents_txt(row, col_map, "comments")]

SvrgEvents_records(body, col_map) ==
                              [i \in 1..Len(body) |-> SvrgEvents_rec(body[i], col_map)]

SvrgEvents_mapped(rows, hdr_idx, col_map) ==
        SvrgEvents_records(SelectSeq(SubSeq(rows, hdr_idx + 2, Len(rows)),
                               LAMBDA row :
                                   \/ _to_date(_get_col(row, col_map, "date")) # None
                                   \/ _to_str_ref(_get_col(row, col_map, "engine_serial")) # None
                                   \/ SvrgEvents_txt(row, col_map, "description") # None),
                           col_map)

SvrgEvents_header(rows, hdr_idx) ==
        SvrgEvents_mapped(rows, hdr_idx, _map_generic_columns(rows[hdr_idx + 1], _SVRG_EVENT_ALIASES))

SvrgEvents(rows) ==
    SvrgEvents_header(rows, _find_header_row(rows,
                                <<"date", "engine serial", "a/c", "cause", "qualified">>, 20))

\* df.notna().any(axis=1).sum()
NotNaRows(rows) == Cardinality({i \in 1..Len(rows) : \E j \in 1..Len(rows[i]) :
                                    rows[i][j].k # "none"})

_parse_svrg_master_has_claims(all_sheets) ==
                  HasSheet(all_sheets, "CLAIMS SUMMARY")

_parse_svrg_master_has_events(all_sheets) ==
                  HasSheet(all_sheets, "EVENT ENTRY")

_parse_svrg_master_result(all_sheets, filename, menu, claims, events, other) ==
        Return(
            [file_type |-> "SVRG_MASTER",
             metadata |-> [source_file |-> filename,
                           customer |-> FirstWith(menu,
                                            <<"emirates", "singapore", "airline">>),
                           engine_model |-> FirstWith(menu, <<"trent", "t900">>),
                           all_sheets |-> SheetNames(all_sheets)],
             claims_summary |->
                [claims |-> claims, total_claims |-> Len(claims),
                 total_credit_value |->
                    FloatV(SumSeq([i \in 1..Len(claims) |->
                                        OrZero(claims[i].credit_value)]))],
             event_entries |->
                [events |-> events, total_events |-> Len(events),
                 qualifications |-> _count_field(events, "qualification"),
                 guarantee_types |-> _count_field(events, "guarantee_coverage")],
             available_sheets |->
                [i \in 1..Len(other) |->
                    [name |-> other[i].name, row_count |-> NotNaRows(other[i].rows),
                     col_count |-> IF Len(other[i].rows) = 0 THEN 0
                                   ELSE Len(other[i].rows[1])]],
             errors |-> << >>])

_parse_svrg_master(all_sheets, filename) ==
    IF \/ _parse_svrg_master_has_claims(all_sheets) /\ Len(SheetRows(all_sheets, "CLAIMS SUMMARY")) = 0
       \/ _parse_svrg_master_has_events(all_sheets) /\ Len(SheetRows(all_sheets, "EVENT ENTRY")) = 0
    THEN Raise(OutOfBounds)
    ELSE _parse_svrg_master_result(all_sheets, filename, IF HasSheet(all_sheets, "MENU")
                                                         THEN CleanCells(SheetRows(all_sheets, "MENU"), 10) ELSE << >>,
                                                         IF _parse_svrg_master_has_claims(all_sheets) THEN SvrgClaims(SheetRows(all_sheets, "CLAIMS SUMMARY"))
                                                         ELSE << >>,
                                                         IF _parse_svrg_master_has_events(all_sheets) THEN SvrgEvents(SheetRows(all_sheets, "EVENT ENTRY"))
                                                         ELSE << >>,
                                                         SelectSeq(all_sheets, LAMBDA sh : sh.name \notin
                                                             {"MENU", "EVENT ENTRY", "CLAIMS SUMMARY", "Chart1", "Chart2",
                                                              "DESCRIPTIONS", "Sheet3"}))

_parse_opp_cover_found(texts, c, later) ==
        [title |-> IF c = {} THEN None ELSE StrV(texts[SetMin(c)]),
         subtitle |-> IF c = {} \/ later = {} THEN None
                      ELSE StrV(texts[CHOOSE i \in later : \A j \in later : j <= i])]

_parse_opp_cover_titles(texts, c) ==
                        _parse_opp_cover_found(texts, c, c \ {SetMin(c)})

_parse_opp_cover_scan(texts) ==
        _parse_opp_cover_titles(texts, {i \in 1..Len(texts) :
                             AnyIn(<<"commercial optimisation", "opportunity report">>, Lower(texts[i]))})

\* _parse_opp_cover(df): title is the first cell of the first 15 rows that
\* names the report, subtitle the last later one.
_parse_opp_cover(rows) ==
    _parse_opp_cover_scan(CleanCells(rows, 15))

\* The sheet parsers for the log, Summary, Opps and Threats, Date Input,
\* Timeline, COUNT, INPUT, SUM and Sheet1 sheets (lines 954-1635) are not
\* part of this model: PlainTracker says that a workbook has none of them,
\* and for such a workbook each of their results is the empty dict.
PlainTracker(all_sheets) ==
    \A i \in 1..Len(all_sheets) :
        LET n == Lower(all_sheets[i].name)
        IN  /\ ~AnyIn(<<"l2", "l3", "mea log", "opp log">>, n)
            /\ ~AnyIn(<<"opp log sheet", "type of opportunity">>,
                      TextBlob(all_sheets[i].rows, 20))
            /\ Strip(n) \notin {"summary", "count", "input", "sum", "sheet1", "timeline"}
            /\ ~(Contains(n, "opps") /\ Contains(n, "threat"))
            /\ all_sheets[i].name \notin {"Date Input", "date input"}

_parse_opportunity_tracker_result(all_sheets, filename, covers, cover_data) ==
        Return(
            [file_type |-> "OPPORTUNITY_TRACKER",
             metadata |-> [source_file |-> filename, away_day_date |-> None,
                           exchange_rate |-> None,
                           report_title |-> IF covers = {} THEN None ELSE cover_data.title,
                           sheets_parsed |-> << >>,
                           all_sheets |-> SheetNames(all_sheets),
                           estimation_levels |-> EmptyMap],
             opportunities |-> EmptyMap,
             opportunities_by_level |-> EmptyMap,
             summary |-> [total_opportunities |-> 0, by_status |-> EmptyMap,
                          by_programme |-> EmptyMap, by_customer |-> EmptyMap,
                          by_opportunity_type |-> EmptyMap,
                          total_term_benefit |-> FloatV(0),
                          estimation_level_sums |-> EmptyMap],
             project_summary |-> EmptyMap,
             opps_and_threats |-> EmptyMap,
             timeline |-> [milestones |-> << >>],
             customer_analytics |-> EmptyMap,
             calculator |-> EmptyMap,
             cover |-> cover_data,
             input_config |-> EmptyMap,
             reference_data |-> EmptyMap,
             errors |-> << >>])

_parse_opportunity_tracker_cover(all_sheets, filename, covers) ==
        _parse_opportunity_tracker_result(all_sheets, filename, covers, IF covers = {} THEN EmptyMap
                                                                        ELSE _parse_opp_cover(all_sheets[SetMin(covers)].rows))

_parse_opportunity_tracker(all_sheets, filename) ==
    _parse_opportunity_tracker_cover(all_sheets, filename, {i \in 1..Len(all_sheets) : Strip(Lower(all_sheets[i].name)) = "cover"})

(***************************************************************************)
(* Loading a workbook and the public entry point parse_file                *)
(*                                                                         *)
(* A source is [form, text, book]: form is "str", "bytes" or "stream";     *)
(* text is the string of a str source (a path or base64 text); book is     *)
(* what the bytes, the stream, the file at the path or the decoded text    *)
(* hold: [valid |-> whether pandas can open it, sheets |-> the sheets that *)
(* parse].                                                                 *)
(***************************************************************************)
LowerLetters ==
    {"a", "b", "c", "d", "e", "f", "g", "h", "i", "j", "k", "l", "m", "n", "o", "p",
     "q", "r", "s", "t", "u", "v", "w", "x", "y", "z"}

IsBase64Char(c) == LowerChar(c) \in LowerLetters \/ c \in Digits \/ c \in {"+", "/"}

Base64Ok_data(text) ==
            Cardinality({i \in 1..Len(text) : IsBase64Char(SubSeq(text, i, i))})

Base64Ok_pads(text) ==
            Cardinality({i \in 1..Len(text) : SubSeq(text, i, i) = "="})

\* base64.b64decode(text) succeeds: characters outside the alphabet are
\* discarded, and the data characters with the padding must fill groups of 4.
Base64Ok(text) ==
    \/ Base64Ok_data(text) % 4 = 0
    \/ Base64Ok_data(text) % 4 = 2 /\ Base64Ok_pads(text) >= 2
    \/ Base64Ok_data(text) % 4 = 3 /\ Base64Ok_pads(text) >= 1

Base64Error == "Incorrect padding"

IsExcelPath(text) == \E suffix \in {".xlsx", ".xls", ".xlsb", ".xlsm"} : EndsWith(text, suffix)

NoBook == [valid |-> FALSE, sheets |-> << >>]

\* base64.b64decode(source) when it succeeds: bytes.  Text that is a path
\* decodes to bytes that are no workbook.
Decoded(source) ==
    [form |-> "bytes", text |-> "",
     book |-> IF IsExcelPath(source.text) THEN NoBook ELSE source.book]

\* The {name: DataFrame} dict, or << >> for None.
_load_workbook(source) ==
    IF source.form = "str" /\ ~IsExcelPath(source.text) /\ ~Base64Ok(source.text) THEN << >>
    ELSE IF ~source.book.valid THEN << >>
    ELSE source.book.sheets

\* The source text has a dash that is not ASCII where this one has " - ".
LoadMessage == "Could not load workbook - file may be corrupt or unsupported."

\* The extractor parse_file selects for a detected type.
Extract(file_type, all_sheets, filename, hash_seed) ==
    IF file_type = "SOA" THEN _parse_soa(all_sheets, filename)
    ELSE IF file_type = "INVOICE_LIST" THEN _parse_invoice_list(all_sheets, filename, hash_seed)
    ELSE IF file_type = "OPPORTUNITY_TRACKER" THEN _parse_opportunity_tracker(all_sheets, filename)
    ELSE IF file_type = "SHOP_VISIT" THEN _parse_shop_visit(all_sheets, filename, hash_seed)
    ELSE IF file_type = "SVRG_MASTER" THEN _parse_svrg_master(all_sheets, filename)
    ELSE _parse_unknown(all_sheets, filename)

CrashMessage(e) == "Primary parser crashed: " \o e \o ". Fell back to generic extraction."

\* The variant that stores the crash message in place of the errors list.
FallbackReplacing(fallback, file_type, e) ==
    [fallback EXCEPT !.errors = <<CrashMessage(e)>>,
                     !.file_type = file_type \o "_FALLBACK"]

\* The result of the except branch when the generic extractor returned.
Fallback(fallback, file_type, e) ==
    [fallback EXCEPT !.errors = Append(@, CrashMessage(e)),
                     !.file_type = file_type \o "_FALLBACK"]

\* `if is_base64 and isinstance(source, str)` and the decode raises.
DecodeFails(source, is_base64) ==
    is_base64 /\ source.form = "str" /\ ~Base64Ok(source.text)

\* all_sheets of parse_file when the decode did not raise.
LoadedSheets(source, is_base64) ==
    _load_workbook(IF is_base64 /\ source.form = "str" THEN Decoded(source) ELSE source)

parse_file_outcome(filename, file_type, primary, fallback) ==
        IF ~primary.raised THEN primary.value
        ELSE IF ~fallback.raised THEN Fallback(fallback.value, file_type, primary.msg)
        ELSE
            [file_type |-> "ERROR",
             metadata |-> [source_file |-> filename],
             errors |-> <<"Primary parser crashed: " \o primary.msg,
                          "Fallback also failed: " \o fallback.msg>>]

parse_file_detected(filename, hash_seed, all_sheets, file_type) ==
        parse_file_outcome(filename, file_type, Extract(file_type, all_sheets, filename, hash_seed),
                                     _parse_unknown(all_sheets, filename))

parse_file_loaded(filename, hash_seed, all_sheets) ==
        IF Len(all_sheets) = 0 THEN
            [file_type |-> "ERROR",
             metadata |-> [source_file |-> filename],
             errors |-> <<LoadMessage>>]
        ELSE parse_file_detected(filename, hash_seed, all_sheets, detect_file_type(all_sheets))

parse_file(source, filename, is_base64, hash_seed) ==
    IF DecodeFails(source, is_base64) THEN
        [file_type |-> "ERROR",
         errors |-> <<"base64 decode failed: " \o Base64Error>>]
    ELSE parse_file_loaded(filename, hash_seed, LoadedSheets(source, is_base64))

(***************************************************************************)
(* The session layer: keys, cross-references, combined items               *)
(*                                                                         *)
(* A dict whose keys the code fixes is a record.  The dict of parsed files *)
(* is the sequence of its [name, result] pairs in insertion order.  The    *)
(* dicts keyed by extracted values (index, cross_refs, matches_by_type)    *)
(* are functions: their insertion order is not modelled.                   *)
(***************************************************************************)
\* {**a, **b}
Merge(a, b) == [x \in DOMAIN a \cup DOMAIN b |-> IF x \in DOMAIN b THEN b[x] ELSE a[x]]

\* The lists of a list, one after the other.
RECURSIVE Concat(_)
Concat(qq) ==
    IF Len(qq) = 0 THEN << >>
    ELSE IF Len(qq) = 1 THEN qq[1]
    ELSE Concat(SubSeq(qq, 1, Len(qq) \div 2)) \o Concat(SubSeq(qq, Len(qq) \div 2 + 1, Len(qq)))

\* \w and \s of the re module, on ASCII text.
IsWordChar(c) == LowerChar(c) \in LowerLetters \/ c \in Digits \/ c = "_"
IsSpaceChar(c) == c \in {" ", "\t", "\n", "\r"}

WordAt(t, i) == i >= 1 /\ i <= Len(t) /\ IsWordChar(SubSeq(t, i, i))

\* \b in front of position i.
BoundaryAt(t, i) == WordAt(t, i - 1) # WordAt(t, i)

\* The length of the longest run of characters of one class from position i.
RunFrom(t, i, InClass(_)) ==
    CHOOSE n \in 0..(Len(t) + 1 - i) :
        /\ \A j \in 0..(n - 1) : InClass(SubSeq(t, i + j, i + j))
        /\ (i + n > Len(t) \/ ~InClass(SubSeq(t, i + n, i + n)))

IsDigitChar(c) == c \in Digits

EsnMatchAt_spaces(t, i) ==
              RunFrom(t, i + 3, IsSpaceChar)

EsnMatchAt_digits(t, i) ==
              RunFrom(t, i + 3 + EsnMatchAt_spaces(t, i), IsDigitChar)

EsnMatchAt_first(t, i) ==
             /\ BoundaryAt(t, i)
             /\ i + 2 <= Len(t)
             /\ Lower(SubSeq(t, i, i + 2)) = "esn"
             /\ EsnMatchAt_digits(t, i) \in 4..6
             /\ BoundaryAt(t, i + 3 + EsnMatchAt_spaces(t, i) + EsnMatchAt_digits(t, i))

EsnMatchAt_second(t, i) ==
              /\ BoundaryAt(t, i)
              /\ SubSeq(t, i, i) = "9"
              /\ RunFrom(t, i, IsDigitChar) = 5
              /\ BoundaryAt(t, i + 5)

\* A match of _ESN_IN_TEXT that starts at position i: its length and
\* group(1) or group(2); length 0 when there is none.
EsnMatchAt(t, i) ==
    IF EsnMatchAt_first(t, i) THEN [len |-> 3 + EsnMatchAt_spaces(t, i) + EsnMatchAt_digits(t, i),
                                    val |-> SubSeq(t, i + 3 + EsnMatchAt_spaces(t, i), i + 2 + EsnMatchAt_spaces(t, i) + EsnMatchAt_digits(t, i))]
    ELSE IF EsnMatchAt_second(t, i) THEN [len |-> 5, val |-> SubSeq(t, i, i + 4)]
    ELSE [len |-> 0, val |-> ""]

\* finditer: the matches from left to right, none overlapping another.
RECURSIVE EsnScan(_, _, _)
EsnScan(t, i, found) ==
    IF i > Len(t) THEN found
    ELSE LET m == EsnMatchAt(t, i)
         IN  IF m.len = 0 THEN EsnScan(t, i + 1, found)
             ELSE IF Eager(Append(found, m.val))
                  THEN EsnScan(t, i + m.len, Append(found, m.val))
                  ELSE found

\* text is a cell: None and "" give no serial number.
_extract_esns_from_text(text) ==
    IF text.k = "none" \/ text.s = "" THEN << >> ELSE EsnScan(text.s, 1, << >>)

KeyEntry_v(value) ==
         IF value.k = "none" THEN "" ELSE Strip(PyStr(value))

\* _k(key_type, value, **ctx): the list of the key it appends, or no key.
KeyEntry(key_type, value, filename, ft, ctx) ==
    IF value.k = "none" \/ KeyEntry_v(value) = "" \/ Lower(KeyEntry_v(value)) \in {"none", "nan", "unknown"} THEN << >>
    ELSE << Merge([key_type |-> key_type, value |-> KeyEntry_v(value), file |-> filename,
                   file_type |-> ft], ctx) >>

\* d.get(field, default)
GetOr(d, field, default) == IF field \in DOMAIN d THEN d[field] ELSE default

EsnKeys_esns(text) ==
            _extract_esns_from_text(text)

EsnKeys(text, filename, ft, ctx) ==
    Concat([i \in 1..Len(EsnKeys_esns(text)) |-> KeyEntry("esn", StrV(EsnKeys_esns(text)[i]), filename, ft, ctx)])

SoaItemKeys(item, sname, filename, ft) ==
    KeyEntry("invoice_ref", item.reference, filename, ft,
             [section |-> sname, amount |-> item.amount, days_late |-> item.days_late,
              due_date |-> item.due_date, text |-> item.text])
    \o KeyEntry("assignment", item.assignment, filename, ft,
                [section |-> sname, amount |-> item.amount])
    \o KeyEntry("account", item.account, filename, ft, [section |-> sname])
    \o EsnKeys(item.text, filename, ft,
               [section |-> sname, amount |-> item.amount, ref |-> item.reference])
    \o EsnKeys(item.rr_comments, filename, ft, [section |-> sname, ref |-> item.reference])

InvItemKeys(item, filename, ft) ==
    KeyEntry("invoice_ref", item.reference, filename, ft,
             [amount |-> item.amount, due_date |-> item.due_date, text |-> item.text])
    \o KeyEntry("assignment", item.assignment, filename, ft, [amount |-> item.amount])
    \o EsnKeys(item.text, filename, ft, [ref |-> item.reference, amount |-> item.amount])

TrackerKeys_items(result) ==
             GetOr(result.opps_and_threats, "items", << >>)

TrackerKeys_projects(result) ==
                GetOr(result.project_summary, "projects", << >>)

TrackerKeys_milestones(result) ==
                  GetOr(result.timeline, "milestones", << >>)

\* The keys of the lists of an opportunity tracker.  The model's tracker
\* results have an empty opportunities dict, so its loop yields no key.
TrackerKeys(result, filename, ft) ==
    Concat([i \in 1..Len(TrackerKeys_items(result)) |->
        KeyEntry("customer", TrackerKeys_items(result)[i].customer, filename, ft,
                 [project |-> TrackerKeys_items(result)[i].project, programme |-> TrackerKeys_items(result)[i].programme,
                  opportunity |-> TrackerKeys_items(result)[i].opportunity, owner |-> TrackerKeys_items(result)[i].owner])
        \o KeyEntry("project", TrackerKeys_items(result)[i].project, filename, ft,
                    [customer |-> TrackerKeys_items(result)[i].customer,
                     programme |-> TrackerKeys_items(result)[i].programme])])
    \o Concat([i \in 1..Len(TrackerKeys_projects(result)) |->
        KeyEntry("customer", TrackerKeys_projects(result)[i].customer, filename, ft,
                 [project |-> TrackerKeys_projects(result)[i].project, programme |-> TrackerKeys_projects(result)[i].programme,
                  crp_margin |-> TrackerKeys_projects(result)[i].current_crp_margin])
        \o KeyEntry("project", TrackerKeys_projects(result)[i].project, filename, ft,
                    [customer |-> TrackerKeys_projects(result)[i].customer,
                     programme |-> TrackerKeys_projects(result)[i].programme])])
    \o Concat([i \in 1..Len(TrackerKeys_milestones(result)) |->
        KeyEntry("project", TrackerKeys_milestones(result)[i].project, filename, ft,
                 [customer |-> TrackerKeys_milestones(result)[i].customer,
                  current_phase |-> TrackerKeys_milestones(result)[i].current_phase])])

_extract_file_keys_ft(result) ==
          result.file_type

_extract_file_keys(result, filename) ==
    IF _extract_file_keys_ft(result) = "SOA" THEN
                                   KeyEntry("customer", result.metadata.customer_name, filename, _extract_file_keys_ft(result), EmptyMap)
                                   \o Concat([s \in 1..Len(result.sections) |->
                                         Concat([i \in 1..Len(result.sections[s].items) |->
                                             SoaItemKeys(result.sections[s].items[i], result.sections[s].name,
                                                         filename, _extract_file_keys_ft(result))])])
    ELSE IF _extract_file_keys_ft(result) = "INVOICE_LIST" THEN
        Concat([i \in 1..Len(result.items) |-> InvItemKeys(result.items[i], filename, _extract_file_keys_ft(result))])
    ELSE IF _extract_file_keys_ft(result) = "SHOP_VISIT_HISTORY" THEN
        LET events == result.shop_visits \o result.maintenance_actions
                      \o result.current_status
        IN  Concat([i \in 1..Len(events) |->
                KeyEntry("esn", events[i].serial_number, filename, _extract_file_keys_ft(result),
                         [event_datetime |-> events[i].event_datetime,
                          operator |-> events[i].operator,
                          sv_type |-> events[i].sv_type,
                          sv_location |-> events[i].sv_location])])
    ELSE IF _extract_file_keys_ft(result) = "SVRG_MASTER" THEN
        LET events == result.event_entries.events
        IN  KeyEntry("customer", result.metadata.customer, filename, _extract_file_keys_ft(result), EmptyMap)
            \o Concat([i \in 1..Len(events) |->
                  KeyEntry("esn", events[i].engine_serial, filename, _extract_file_keys_ft(result),
                           [date |-> events[i].date,
                            description |-> events[i].description,
                            qualification |-> events[i].qualification])])
    ELSE IF _extract_file_keys_ft(result) = "OPPORTUNITY_TRACKER" THEN TrackerKeys(result, filename, _extract_file_keys_ft(result))
    ELSE << >>

\* The variant that keeps a group whenever it has two occurrences.
RetainedByCount(occurrences) == Len(occurrences) >= 2

\* len(distinct_files) >= 2
Retained(occurrences) ==
    Cardinality({occurrences[i].file : i \in 1..Len(occurrences)}) >= 2

\* The entry of a key: the key without key_type and value.
Entry(k) == [x \in DOMAIN k \ {"key_type", "value"} |-> k[x]]

OccurrencesOncePerFile_hits(keys, kt, val) ==
            {i \in 1..Len(keys) : keys[i].key_type = kt /\ keys[i].value = val}

OccurrencesOncePerFile_firsts(keys, kt, val) ==
              {i \in OccurrencesOncePerFile_hits(keys, kt, val) : \A j \in OccurrencesOncePerFile_hits(keys, kt, val) : keys[j].file = keys[i].file => i <= j}

OccurrencesOncePerFile_picked(keys, kt, val) ==
              SelectSeq([i \in 1..Len(keys) |-> IF i \in OccurrencesOncePerFile_firsts(keys, kt, val) THEN <<keys[i]>> ELSE << >>],
                        LAMBDA q : Len(q) = 1)

\* The variant that records a value once per file.
OccurrencesOncePerFile(keys, kt, val) ==
    [i \in 1..Len(OccurrencesOncePerFile_picked(keys, kt, val)) |-> Entry(OccurrencesOncePerFile_picked(keys, kt, val)[i][1])]

Occurrences_picked(keys, kt, val) ==
              SelectSeq(keys, LAMBDA k : k.key_type = kt /\ k.value = val)

\* index[kt][val]: the entries of the keys of one type and value, in order.
Occurrences(keys, kt, val) ==
    [i \in 1..Len(Occurrences_picked(keys, kt, val)) |-> Entry(Occurrences_picked(keys, kt, val)[i])]

\* The key types _extract_file_keys emits.
KeyTypes == <<"invoice_ref", "assignment", "account", "customer", "esn", "programme",
              "project">>

_build_cross_references_values(keys, kt) ==
        {keys[i].value : i \in {j \in 1..Len(keys) : keys[j].key_type = kt}}

_build_cross_references_multi(keys, kt) ==
        [val \in {v \in _build_cross_references_values(keys, kt) : Retained(Occurrences(keys, kt, v))} |->
            Occurrences(keys, kt, val)]

_build_cross_references_result(keys, cross_refs, matches_by_type) ==
        [cross_refs |-> cross_refs,
         stats |-> [total_keys_extracted |-> Len(keys),
                    cross_file_matches |->
                        SumSeq([i \in 1..Len(KeyTypes) |->
                                    IF KeyTypes[i] \in DOMAIN matches_by_type
                                    THEN matches_by_type[KeyTypes[i]] ELSE 0]),
                    matches_by_type |-> matches_by_type]]

\* The variant whose matches_by_type counts occurrences, not groups.
_build_cross_references_counted_occurrences(keys, cross_refs) ==
        _build_cross_references_result(keys, cross_refs,
                                       [kt \in DOMAIN cross_refs |->
                                           SumSeq([i \in 1..Len(keys) |->
                                               IF /\ keys[i].key_type = kt
                                                  /\ keys[i].value \in DOMAIN cross_refs[kt]
                                               THEN 1 ELSE 0])])

_build_cross_references_counted(keys, cross_refs) ==
        _build_cross_references_result(keys, cross_refs,
                                       [kt \in DOMAIN cross_refs |-> Cardinality(DOMAIN cross_refs[kt])])

_build_cross_references_grouped(keys) ==
        _build_cross_references_counted(keys, [kt \in {t \in {keys[i].key_type : i \in 1..Len(keys)} :
                                                            DOMAIN _build_cross_references_multi(keys, t) # {}} |-> _build_cross_references_multi(keys, kt)])

\* all_results is the sequence of [name, result] pairs of the parsed dict.
_build_cross_references(all_results) ==
    _build_cross_references_grouped(Concat([i \in 1..Len(all_results) |->
                                        IF all_results[i].result.file_type = "ERROR" THEN << >>
                                        ELSE _extract_file_keys(all_results[i].result, all_results[i].name)]))

Abs(n) == IF n < 0 THEN -n ELSE n

\* The sort key of a combined item: (-(days_late or 0), -abs(amount or 0)).
OpenItemKey(x) ==
    <<-(IF "days_late" \in DOMAIN x THEN OrZero(x.days_late) ELSE 0), -Abs(OrZero(x.amount))>>

KeyLeq(a, b) == a[1] < b[1] \/ (a[1] = b[1] /\ a[2] <= b[2])

\* list.sort(key=...): stable, ascending.
RECURSIVE StableSort(_, _)
StableSort(items, sorted) ==
    IF Len(items) = 0 THEN sorted
    ELSE LET x == items[1]
             at == Cardinality({j \in 1..Len(sorted) :
                                    KeyLeq(OpenItemKey(sorted[j]), OpenItemKey(x))})
             placed == SubSeq(sorted, 1, at) \o <<x>> \o SubSeq(sorted, at + 1, Len(sorted))
         IN  IF Eager(placed) THEN StableSort(Tail(items), placed) ELSE sorted

OpenItemsOf_ft(result) ==
          result.file_type

OpenItemsOf_flat(fname, result) ==
            IF OpenItemsOf_ft(result) = "SOA"
            THEN Concat([s \in 1..Len(result.sections) |->
                    [i \in 1..Len(result.sections[s].items) |->
                        Merge(result.sections[s].items[i],
                              [_source_file |-> StrV(fname),
                               _source_section |-> StrV(result.sections[s].name),
                               _file_type |-> StrV(OpenItemsOf_ft(result))])]])
            ELSE IF OpenItemsOf_ft(result) = "INVOICE_LIST"
            THEN [i \in 1..Len(result.items) |->
                    Merge(result.items[i],
                          [_source_file |-> StrV(fname), _source_section |-> None,
                           _file_type |-> StrV(OpenItemsOf_ft(result))])]
            ELSE << >>

OpenItemsOf(fname, result) ==
    SelectSeq(OpenItemsOf_flat(fname, result), LAMBDA item : item.amount # None)

_build_combined_open_items(all_results) ==
    StableSort(Concat([i \in 1..Len(all_results) |->
                        OpenItemsOf(all_results[i].name, all_results[i].result)]), << >>)

ParsedFiles_firsts(files) ==
              {i \in 1..Len(files) : \A j \in 1..(i - 1) : files[j].name # files[i].name}

ParsedFiles_last(files, n) ==
               CHOOSE i \in 1..Len(files) :
                    /\ files[i].name = n
                    /\ \A j \in (i + 1)..Len(files) : files[j].name # n

ParsedFiles_order(files) ==
             SelectSeq([i \in 1..Len(files) |-> i], LAMBDA i : i \in ParsedFiles_firsts(files))

\* The parsed dict after the loop: a name keeps the place of its first file
\* and the result of its last.  parse_file returns on every input, so the
\* except branch of the loop (lines 2550-2558) is never taken and
\* session_errors stays empty.
ParsedFiles(files, is_base64, hash_seed) ==
    [k \in 1..Len(ParsedFiles_order(files)) |->
        [name |-> files[ParsedFiles_order(files)[k]].name,
         result |-> Merge(parse_file(files[ParsedFiles_last(files, files[ParsedFiles_order(files)[k]].name)].data,
                                     files[ParsedFiles_order(files)[k]].name, is_base64, hash_seed),
                          [original_filename |-> files[ParsedFiles_order(files)[k]].name])]]

parse_session_built(hash_seed, parsed, xref) ==
        [files |-> parsed,
         cross_references |-> xref,
         combined_open_items |-> _build_combined_open_items(parsed),
         session_summary |->
            [files_loaded |-> Len(parsed),
             file_types_present |->
                ListOfSet({parsed[i].result.file_type : i \in 1..Len(parsed)}, hash_seed),
             cross_file_matches |-> xref.stats.cross_file_matches,
             session_errors |-> << >>]]

parse_session_loaded(hash_seed, parsed) ==
                      parse_session_built(hash_seed, parsed, _build_cross_references(parsed))

parse_session(files, is_base64, hash_seed) ==
    parse_session_loaded(hash_seed, ParsedFiles(files, is_base64, hash_seed))

(***************************************************************************)
(* Calendar                                                                *)
(***************************************************************************)
DaysFromCivil_yy(y, m) ==
          IF m <= 2 THEN y - 1 ELSE y

DaysFromCivil_mp(m) ==
          IF m <= 2 THEN m + 9 ELSE m - 3

\* Days from 0000-03-01 to the civil date y-m-d (proleptic Gregorian).
DaysFromCivil(y, m, d) ==
    365 * DaysFromCivil_yy(y, m) + DaysFromCivil_yy(y, m) \div 4 - DaysFromCivil_yy(y, m) \div 100 + DaysFromCivil_yy(y, m) \div 400 + (153 * DaysFromCivil_mp(m) + 2) \div 5 + d - 1

DayOf(ymd) == DaysFromCivil(ymd \div 10000, (ymd \div 100) % 100, ymd % 100)

\* The day the clock shows when the program starts.
StartDay == DayOf(20260210)

\* PYTHONHASHSEED: two seeds that order a set of two strings differently.
Seeds == {0, 1}

(***************************************************************************)
(* The statement parser of parser.py (parse_soa_workbook)                  *)
(*                                                                         *)
(* Rows are the lists openpyxl yields for the first sheet.  A dict with    *)
(* computed keys (metadata, totals, a record) is a function from its keys; *)
(* a datetime is a date cell.                                              *)
(***************************************************************************)
SECTION_KEYWORDS ==
    <<"charges", "credits", "credit", "totalcare", "familycare", "missioncare",
      "spare parts", "late payment", "interest", "customer respon",
      "customer responsibility", "usable", "offset">>

HEADER_KEYWORDS ==
    <<"company", "account", "reference", "document", "date", "amount", "curr", "text",
      "assignment", "arrangement", "comments", "status", "action", "days", "late", "lpi",
      "invoice", "type", "interest", "net due">>

SummaryLabels == {"total", "overdue", "available credit", "total overdue", "net balance"}

\* [v for v in row if v is not None]
NotNone(row) == SelectSeq(row, LAMBDA v : v.k # "none")

\* str(v).replace(",", "").replace("$", "").strip()
Unformatted(v) == Strip(Remove(Remove(PyStr(v), ","), "$"))

_is_section_header_non_empty(row_values) ==
                 NotNone(row_values)

_is_section_header_text(row_values) ==
            Lower(Strip(PyStr(_is_section_header_non_empty(row_values)[1])))

_is_section_header_text_clean(row_values) ==
                  RStripChar(_is_section_header_text(row_values), ":")

_is_section_header(row_values, col_count) ==
    /\ Len(_is_section_header_non_empty(row_values)) > 0
    /\ Len(_is_section_header_non_empty(row_values)) <= 3
    /\ ~PyFloat(Remove(_is_section_header_text(row_values), ",")).ok
    /\ _is_section_header_text_clean(row_values) \notin SummaryLabels
    /\ ~(/\ Len(_is_section_header_non_empty(row_values)) = 2
         /\ PyFloat(Unformatted(_is_section_header_non_empty(row_values)[2])).ok
         /\ AnyIn(<<"total", "overdue", "credit", "balance">>, _is_section_header_text_clean(row_values)))
    /\ AnyIn(SECTION_KEYWORDS, _is_section_header_text(row_values))

_is_header_row_non_empty(row_values) ==
                 NotNone(row_values)

_is_header_row_texts(row_values) ==
             [i \in 1..Len(_is_header_row_non_empty(row_values)) |-> Strip(PyStr(_is_header_row_non_empty(row_values)[i]))]

_is_header_row_short(row_values) ==
             SelectSeq(_is_header_row_texts(row_values), LAMBDA t : Len(t) < 35)

_is_header_row_short_texts(row_values) ==
                   [i \in 1..Len(_is_header_row_short(row_values)) |-> Lower(_is_header_row_short(row_values)[i])]

_is_header_row_hits(row_values) ==
            SumSeq([i \in 1..Len(_is_header_row_short_texts(row_values)) |->
                Cardinality({k \in 1..Len(HEADER_KEYWORDS) :
                                Contains(_is_header_row_short_texts(row_values)[i], HEADER_KEYWORDS[k])})])

_is_header_row(row_values) ==
    /\ Len(_is_header_row_non_empty(row_values)) >= 4
    /\ \A i \in 1..Len(_is_header_row_non_empty(row_values)) :
            ~(/\ PyFloat(Unformatted(_is_header_row_non_empty(row_values)[i])).ok
              /\ Abs(PyFloat(Unformatted(_is_header_row_non_empty(row_values)[i])).n) > 10000)
    /\ Len(_is_header_row_short_texts(row_values)) >= 3
    /\ _is_header_row_hits(row_values) >= 3

_is_summary_row_t(v) ==
            RStripChar(Lower(Strip(PyStr(v))), ":")

_is_summary_row_c(row_values) ==
         {i \in 1..Len(row_values) :
            /\ row_values[i].k # "none"
            /\ Len(_is_summary_row_t(row_values[i])) <= 25
            /\ _is_summary_row_t(row_values[i]) \in SummaryLabels \cup {"total:", "overdue:"}}

\* The summary type of the row, or "" for None.
_is_summary_row(row_values) ==
    IF _is_summary_row_c(row_values) = {} THEN "" ELSE RStripChar(_is_summary_row_t(row_values[SetMin(_is_summary_row_c(row_values))]), ":")

_find_amount_col_c(header) ==
         {i \in 0..(Len(header) - 1) :
            header[i + 1].k # "none" /\ Contains(Lower(PyStr(header[i + 1])), "amount")}

\* The index of the first header cell with "amount", or -1 for None.
_find_amount_col(header) ==
    IF _find_amount_col_c(header) = {} THEN -1 ELSE SetMin(_find_amount_col_c(header))

_coerce_amount(val) ==
    IF val.k = "none" THEN None
    ELSE IF IsNum(val) THEN FloatV(val.n)
    ELSE IF val.k \in {"nan", "inf"} THEN val
    ELSE LET s == Remove(Remove(Remove(Strip(PyStr(val)), ","), "$"), " ")
         IN  IF s \in {"", "-", "$ -", "$-"} THEN None
             ELSE IF PyFloat(s).ok THEN FloatV(PyFloat(s).n)
             ELSE None

\* ("%d/%m/%Y", "%m/%d/%Y", "%Y-%m-%d", "%d-%m-%Y", "%d.%m.%Y")
LegacyDateFmts ==
    << [sep |-> "/", order |-> "dmY"], [sep |-> "/", order |-> "mdY"],
       [sep |-> "-", order |-> "Ymd"], [sep |-> "-", order |-> "dmY"],
       [sep |-> ".", order |-> "dmY"] >>

\* The datetime, or None.
_coerce_date(val) ==
    IF val.k = "none" THEN None
    ELSE IF val.k = "date" THEN val
    ELSE IF TryFormats(Strip(PyStr(val)), LegacyDateFmts) # -1
        THEN DateV(TryFormats(Strip(PyStr(val)), LegacyDateFmts))
    ELSE None

\* int(x) of x hundredths: truncation towards zero.
Trunc(n) == IF n < 0 THEN -((-n) \div 100) ELSE n \div 100

\* int(float(val)), or None on ValueError and TypeError (a date is a
\* TypeError, NaN a ValueError).  Infinity is an OverflowError: IntOverflows.
_coerce_int(val) ==
    IF val.k \in {"none", "date", "nan"} THEN None
    ELSE IF IsNum(val) THEN IntV(Trunc(val.n))
    ELSE IF PyFloat(val.s).ok THEN IntV(Trunc(PyFloat(val.s).n))
    ELSE None

\* a == b of two cell values: numbers compare by value.
PyEq(a, b) == IF IsNum(a) /\ IsNum(b) THEN a.n = b.n ELSE a = b

\* row.index(v), 0-based.
RowIndex(row, v) == SetMin({i \in 0..(Len(row) - 1) : PyEq(row[i + 1], v)})

NextText_c(row, v) ==
         {i \in (RowIndex(row, v) + 1)..(Len(row) - 1) : row[i + 1].k # "none"}

\* `for nv in row[vi+1:]: if nv is not None: ...; break`: the stripped text
\* of the first value to the right of v, or None.
NextText(row, v) ==
    IF NextText_c(row, v) = {} THEN None ELSE StrV(Strip(PyStr(row[SetMin(NextText_c(row, v)) + 1])))

\* float(nv_str.replace("%", "")) succeeds on a value with a percent sign.
PercentOk(nv) ==
    /\ Contains(Strip(PyStr(nv)), "%")
    /\ PyFloat(Remove(Strip(PyStr(nv)), "%")).ok

\* A rate in ten-thousandths: "5%" is 0.05, 500 ten-thousandths.
RateV(n) == [k |-> "rate", s |-> "", n |-> n]

LpiRate_small(a) ==
                a # None /\ Abs(a.n) > 0 /\ Abs(a.n) < 100

LpiRate_frac(nv) ==
                LpiRate_small(_coerce_amount(nv))

LpiRate_rate(nv) ==
        IF PercentOk(nv) THEN RateV(PyFloat(Remove(Strip(PyStr(nv)), "%")).n)
        ELSE RateV(_coerce_amount(nv).n * 100)

LpiRate_pick(row, c) ==
               IF c = {} THEN None ELSE LpiRate_rate(row[SetMin(c)])

\* The lpi_rate the row gives, or None: the first value that is a percentage
\* or an amount strictly between 0 and 1 in size.
LpiRate(row) ==
    LpiRate_pick(row, {i \in 1..Len(row) : row[i].k # "none" /\ (PercentOk(row[i]) \/ LpiRate_frac(row[i]))})

FirstOf_c(row, f(_), Accepts(_)) ==
         {i \in 1..Len(row) : Accepts(f(row[i]))}

\* The first value of the row that f maps to something the test accepts.
FirstOf(row, f(_), Accepts(_)) ==
    IF FirstOf_c(row, f, Accepts) = {} THEN None ELSE f(row[SetMin(FirstOf_c(row, f, Accepts))])

IsPositive(v) == v # None /\ v.n > 0
IsSome(v) == v # None

PutIf(m, f, v) == IF v = None THEN m ELSE Put(m, f, v)

LegacyMetaCell_report_date(row, m, sl) ==
        IF Contains(sl, "today")
        THEN PutIf(m, "report_date", FirstOf(row, _coerce_date, IsSome)) ELSE m

LegacyMetaCell_avg_days_late(row, m, sl, joined) ==
        LegacyMetaCell_report_date(row, IF \/ Contains(sl, "average days late")
                                           \/ Contains(sl, "avg days late")
                                           \/ Contains(joined, "average days late")
                                        THEN PutIf(m, "avg_days_late", FirstOf(row, _coerce_int, IsPositive))
                                        ELSE m, sl)

LegacyMetaCell_joined(present) ==
                       Lower(JoinSp([i \in 1..Len(present) |-> PyStr(present[i])]))

LegacyMetaCell_lpi_rate(row, m, sl) ==
        LegacyMetaCell_avg_days_late(row, IF \/ Contains(sl, "lpi") \/ Contains(sl, "lp ratio")
                                             \/ Contains(sl, "lp rate")
                                          THEN PutIf(m, "lpi_rate", LpiRate(row)) ELSE m,
                                          sl, LegacyMetaCell_joined(NotNone(row)))

LegacyMetaCell_contact(row, v, m, sl) ==
        LegacyMetaCell_lpi_rate(row, IF Contains(sl, "contact") THEN PutIf(m, "contact", NextText(row, v))
                                     ELSE m, sl)

LegacyMetaCell_customer_id(row, v, m, sl) ==
        LegacyMetaCell_contact(row, v, IF \/ /\ Contains(sl, "customer")
                                             /\ (Contains(sl, "#") \/ (Contains(sl, "n") /\ Contains(sl, ":")))
                                          \/ Contains(sl, "customer n")
                                       THEN PutIf(m, "customer_id", NextText(row, v)) ELSE m, sl)

LegacyMetaCell_customer_name(row, v, m, sl) ==
        LegacyMetaCell_customer_id(row, v, IF /\ Contains(sl, "customer")
                                              /\ (Contains(sl, "name") \/ Contains(sl, ":"))
                                              /\ "customer_name" \notin DOMAIN m
                                           THEN PutIf(m, "customer_name", NextText(row, v)) ELSE m, sl)

LegacyMetaCell_title(metadata, row, v, s, sl) ==
        LegacyMetaCell_customer_name(row, v, IF Contains(sl, "statement of account")
                                             THEN Put(metadata, "title", StrV(s)) ELSE metadata, sl)

LegacyMetaCell_text(metadata, row, v, s) ==
               LegacyMetaCell_title(metadata, row, v, s, Lower(s))

\* The body of `for v in row` of pass 1 for one value v that is not None.
LegacyMetaCell(metadata, row, v) ==
    LegacyMetaCell_text(metadata, row, v, Strip(PyStr(v)))

RECURSIVE LegacyMetaRow(_, _, _)
LegacyMetaRow_next(metadata, row, j, scanned) ==
        IF Eager(scanned) THEN LegacyMetaRow(scanned, row, j + 1) ELSE metadata

LegacyMetaRow(metadata, row, j) ==
    IF j > Len(row) THEN metadata
    ELSE IF row[j].k = "none" THEN LegacyMetaRow(metadata, row, j + 1)
    ELSE LegacyMetaRow_next(metadata, row, j, LegacyMetaCell(metadata, row, row[j]))

RECURSIVE LegacyMeta(_, _, _)
LegacyMeta_next(metadata, rows, r, scanned) ==
        IF Eager(scanned) THEN LegacyMeta(scanned, rows, r + 1) ELSE metadata

\* Pass 1 over all_rows[:15].
LegacyMeta(metadata, rows, r) ==
    IF r > Min(15, Len(rows)) THEN metadata
    ELSE LegacyMeta_next(metadata, rows, r, LegacyMetaRow(metadata, rows[r], 1))

\* _get(key, coerce) of pass 3.
LegacyGet(row, col_map, key, coerce) ==
    IF key \notin DOMAIN col_map \/ col_map[key] >= Len(row) THEN None
    ELSE LET v == row[col_map[key] + 1]
         IN  IF v.k = "none" THEN None
             ELSE IF coerce = "float" THEN _coerce_amount(v)
             ELSE IF coerce = "date" THEN _coerce_date(v)
             ELSE IF coerce = "int" THEN _coerce_int(v)
             ELSE StrV(Strip(PyStr(v)))

LegacyAmount_large(col_map, a, ci) ==
        /\ a # None
        /\ Abs(a.n) > 1
        /\ (Abs(a.n) > 10000
            \/ ("days_late" \in DOMAIN col_map /\ ci # col_map["days_late"]))

LegacyAmount_first(row, c) ==
                IF c = {} THEN None ELSE _coerce_amount(row[SetMin(c) + 1])

LegacyAmount_pick(row, col_map, at) ==
        IF at # None THEN at
        ELSE LegacyAmount_first(row, {ci \in 0..(Len(row) - 1) : LegacyAmount_large(col_map, _coerce_amount(row[ci + 1]), ci)})

\* The amount of a data row: the amount column, else the first value that
\* looks like an amount; None when there is none.
LegacyAmount(row, col_map, amt_idx) ==
    LegacyAmount_pick(row, col_map, IF amt_idx # -1 /\ amt_idx < Len(row) THEN _coerce_amount(row[amt_idx + 1])
                                    ELSE None)

StatusWords ==
    <<"ready for payment", "under approval", "under review", "dispute", "ongoing",
      "et to process", "payment pending", "invoice sent", "credit note", "approved",
      "transfer", "invoice approved", "pending for payment">>

\* `if v:` of a record value.
Truthy(v) == v # None /\ ~(v.k = "str" /\ v.s = "")

LegacyStatus_fields(rr_comments, action_owner, customer_comments) ==
              <<rr_comments, action_owner, customer_comments>>

LegacyStatus_c(rr_comments, action_owner, customer_comments) ==
         {i \in 1..3 : Truthy(LegacyStatus_fields(rr_comments, action_owner, customer_comments)[i]) /\ AnyIn(StatusWords, Lower(LegacyStatus_fields(rr_comments, action_owner, customer_comments)[i].s))}

\* The Status of a record after the two derivation steps.
LegacyStatus(status, rr_comments, action_owner, customer_comments) ==
    IF Truthy(status) THEN status
    ELSE IF LegacyStatus_c(rr_comments, action_owner, customer_comments) # {} THEN LegacyStatus_fields(rr_comments, action_owner, customer_comments)[SetMin(LegacyStatus_c(rr_comments, action_owner, customer_comments))]
    ELSE IF Truthy(rr_comments) THEN rr_comments
    ELSE status

\* Days Late: the column's value, else computed from the due date against
\* the report date or, without one, against datetime.now() (lines 507-520).
LegacyDaysLate(days_late, due_date, metadata, today) ==
    IF days_late = None /\ due_date # None THEN
        LET anchor_date == IF "report_date" \in DOMAIN metadata
                           THEN DayOf(metadata["report_date"].n) ELSE today
        IN  IF DayOf(due_date.n) < anchor_date THEN IntV(anchor_date - DayOf(due_date.n))
            ELSE IntV(0)
    ELSE days_late

LegacyRecord_record(row, col_map, sec_name, amt_val, metadata, today, text, due) ==
        [Section |-> StrV(sec_name),
         Amount |-> amt_val,
         Company |-> text["company"],
         Account |-> text["account"],
         Reference |-> text["reference"],
         Document_Date |-> LegacyGet(row, col_map, "doc_date", "date"),
         Due_Date |-> due,
         Currency |-> text["currency"],
         Text |-> text["text"],
         Assignment |-> text["assignment"],
         RR_Comments |-> text["rr_comments"],
         Action_Owner |-> text["action_owner"],
         Days_Late |-> LegacyDaysLate(LegacyGet(row, col_map, "days_late", "int"), due,
                                      metadata, today),
         Customer_Comments |-> text["customer_comments"],
         Status |-> LegacyStatus(text["status"], text["rr_comments"],
                                 text["action_owner"], text["customer_comments"]),
         PO_Reference |-> text["po_reference"],
         LPI_Cumulated |-> text["lpi_cumulated"],
         Type |-> text["type"],
         Document_No |-> text["doc_no"],
         Interest_Method |-> text["interest_method"],
         Customer_Name |-> text["customer_name"],
         Entry_Type |-> StrV(IF amt_val.n < 0 THEN "Credit" ELSE "Charge")]

\* The record of a data row.  A key of the source with a space or a dash has
\* an underscore here: "Document Date" is Document_Date, "R-R Comments" is
\* RR_Comments.
LegacyRecord(row, col_map, sec_name, amt_val, metadata, today) ==
    LegacyRecord_record(row, col_map, sec_name, amt_val, metadata, today, [key \in {"company", "account", "reference", "currency", "text", "assignment",
                                                                                    "rr_comments", "action_owner", "customer_comments", "status",
                                                                                    "po_reference", "lpi_cumulated", "type", "doc_no",
                                                                                    "interest_method", "customer_name"} |->
                                                                               LegacyGet(row, col_map, key, "str")],
                                                                          LegacyGet(row, col_map, "due_date", "date"))

LegacyColMap_amount(col_map, idx) ==
        IF "amount" \notin DOMAIN col_map /\ idx # -1 THEN Put(col_map, "amount", idx)
        ELSE col_map

\* _map_columns(header) with the amount column _find_amount_col adds.
LegacyColMap(header) ==
    LegacyColMap_amount(_map_columns(header), _find_amount_col(header))

LegacyRowStep_total(st, summary_type, amt) ==
        [st EXCEPT !.totals = IF amt = None THEN @ ELSE Put(@, summary_type, amt)]

LegacyRowStep_retitled(st, header) ==
                        [st EXCEPT !.header = header, !.col_map = LegacyColMap(header)]

LegacyRowStep_data(st, row, sec_name, metadata, today, amt_val) ==
        IF amt_val = None THEN st
        ELSE [st EXCEPT !.rows = Append(@, LegacyRecord(row, st.col_map, sec_name,
                                                        amt_val, metadata, today))]

LegacyRowStep_step(st, row, max_col, sec_name, metadata, today, summary_type) ==
        IF summary_type # "" THEN LegacyRowStep_total(st, summary_type, FirstOf(row, _coerce_amount, IsSome))
        ELSE IF _is_section_header(row, max_col) THEN st
        ELSE IF _is_header_row(row) THEN LegacyRowStep_retitled(st, _normalise_header(row))
        ELSE LegacyRowStep_data(st, row, sec_name, metadata, today, LegacyAmount(row, st.col_map, Get(st.col_map, "amount", -1)))

\* One pass of `for ri in range(data_start, end)`; st holds header, col_map,
\* data_rows and totals.
LegacyRowStep(st, row, max_col, sec_name, metadata, today) ==
    LegacyRowStep_step(st, row, max_col, sec_name, metadata, today, _is_summary_row(row))

RECURSIVE LegacyRows(_, _, _, _, _, _, _, _)
LegacyRows_next(st, all_rows, ri, end, max_col, sec_name, metadata, today, nxt) ==
        IF Eager(nxt)
        THEN LegacyRows(nxt, all_rows, ri + 1, end, max_col, sec_name, metadata, today)
        ELSE st

LegacyRows(st, all_rows, ri, end, max_col, sec_name, metadata, today) ==
    IF ri >= end THEN st
    ELSE LegacyRows_next(st, all_rows, ri, end, max_col, sec_name, metadata, today, LegacyRowStep(st, all_rows[ri + 1], max_col, sec_name, metadata, today))

LegacySection_section(sec, st) ==
        [name |-> sec.name, header |-> st.header, colmap |-> st.col_map,
         rows |-> st.rows, totals |-> st.totals]

\* `header_idx and header_idx >= start`: index 0 counts as no index
LegacySection_data_start(sec, header_idx) ==
        IF header_idx > 0 /\ header_idx >= sec.start THEN header_idx + 1
        ELSE sec.start + 1

LegacySection_walk(all_rows, sec, max_col, metadata, today, header_idx, header) ==
        LegacySection_section(sec, LegacyRows([header |-> header,
                                               col_map |-> IF header_idx = -1 THEN EmptyMap
                                                           ELSE LegacyColMap(header),
                                               rows |-> << >>, totals |-> EmptyMap],
                                              all_rows, LegacySection_data_start(sec, header_idx), sec.end, max_col, sec.name,
                                              metadata, today))

LegacySection_titled(all_rows, sec, max_col, metadata, today, header_idx) ==
        LegacySection_walk(all_rows, sec, max_col, metadata, today, header_idx, IF header_idx = -1 THEN None
                                                                                ELSE _normalise_header(all_rows[header_idx + 1]))

LegacySection_found(all_rows, sec, master, max_col, metadata, today, near) ==
                   LegacySection_titled(all_rows, sec, max_col, metadata, today, IF near # {} THEN SetMin(near) ELSE master)

\* Pass 3 for one section: sec is [name, start, end]; master is the index of
\* the master header row, or -1 when there is none.
LegacySection(all_rows, sec, master, max_col, metadata, today) ==
    LegacySection_found(all_rows, sec, master, max_col, metadata, today, {ri \in (sec.start + 1)..Min(sec.start + 3, sec.end - 1) :
                                                                               _is_header_row(all_rows[ri + 1])})

\* sum(d.values()) of a dict keyed by section names.
SumOver(d, names) ==
    SumSeq([i \in 1..Len(names) |-> IF names[i] \in DOMAIN d THEN d[names[i]].n ELSE 0])

LegacyGrand_names(sections) ==
             [i \in 1..Len(sections) |-> sections[i].name]

LegacyGrand_with(sections, k) ==
               {i \in 1..Len(sections) : k \in DOMAIN sections[i].totals}

LegacyGrand_by_section(sections, k) ==
                     [n \in {sections[i].name : i \in LegacyGrand_with(sections, k)} |->
                        sections[CHOOSE i \in LegacyGrand_with(sections, k) : sections[i].name = n].totals[k]]

LegacyGrand_last(c) ==
               CHOOSE i \in c : \A j \in c : j <= i

LegacyGrand_derived(g5, overdue_sum) ==
        IF "total_overdue" \notin DOMAIN g5 /\ overdue_sum # 0
        THEN Put(g5, "total_overdue", FloatV(overdue_sum))
        ELSE g5

LegacyGrand_overdue(sections, g5) ==
        LegacyGrand_derived(g5, IF "section_overdue" \in DOMAIN g5
                                THEN SumOver(g5["section_overdue"], LegacyGrand_names(sections)) ELSE 0)

LegacyGrand_counted(sections, items, g4, amounts) ==
        IF Len(items) = 0 THEN g4
        ELSE LegacyGrand_overdue(sections, Put(Put(Put(Put(g4,
                                      "total_charges", FloatV(SumSeq(SelectSeq(amounts, LAMBDA a : a > 0)))),
                                      "total_credits", FloatV(SumSeq(SelectSeq(amounts, LAMBDA a : a < 0)))),
                                      "net_balance", FloatV(SumSeq(amounts))),
                                      "item_count", IntV(Len(items))))

LegacyGrand_section_totals(sections, items, g3) ==
        LegacyGrand_counted(sections, items, IF LegacyGrand_with(sections, "total") = {} THEN g3
                                             ELSE Put(g3, "section_totals", LegacyGrand_by_section(sections, "total")),
                                             [i \in 1..Len(items) |-> items[i].Amount.n])

LegacyGrand_available_credits(sections, items, g2) ==
        LegacyGrand_section_totals(sections, items, IF LegacyGrand_with(sections, "available credit") = {} THEN g2
                                                    ELSE Put(g2, "available_credits", LegacyGrand_by_section(sections, "available credit")))

LegacyGrand_section_overdue(sections, items, g1) ==
        LegacyGrand_available_credits(sections, items, IF LegacyGrand_with(sections, "overdue") = {} THEN g1
                                                       ELSE Put(g1, "section_overdue", LegacyGrand_by_section(sections, "overdue")))

LegacyGrand_total_overdue(sections, items, g0) ==
        LegacyGrand_section_overdue(sections, items, IF LegacyGrand_with(sections, "total overdue") = {} THEN g0
                                                     ELSE Put(g0, "total_overdue",
                                                              sections[LegacyGrand_last(LegacyGrand_with(sections, "total overdue"))]
                                                                 .totals["total overdue"]))

\* The grand totals of the sections dict (one entry per name) and the items.
LegacyGrand(sections, items) ==
    LegacyGrand_total_overdue(sections, items, EmptyMap)

parse_soa_workbook_result(metadata, sections, all_items) ==
        Return([metadata |-> metadata, sections |-> sections, all_items |-> all_items,
                grand_totals |-> LegacyGrand(sections, all_items)])

\* sections[sec_name] = ...: a name keeps its first place and its last value
parse_soa_workbook_keyed(metadata, parsed, firsts) ==
        parse_soa_workbook_result(metadata,
                                  [k \in 1..Len(firsts) |->
                                       parsed[CHOOSE i \in 1..Len(parsed) :
                                               /\ parsed[i].name = parsed[firsts[k]].name
                                               /\ \A j \in (i + 1)..Len(parsed) :
                                                       parsed[j].name # parsed[i].name]],
                                  Concat([i \in 1..Len(parsed) |-> parsed[i].rows]))

parse_soa_workbook_collected(metadata, parsed) ==
        parse_soa_workbook_keyed(metadata, parsed,
                                 SelectSeq([i \in 1..Len(parsed) |-> i],
                                           LAMBDA i : \A j \in 1..(i - 1) : parsed[j].name # parsed[i].name))

parse_soa_workbook_pass3(today, all_rows, max_col, metadata, master, sections_info) ==
        parse_soa_workbook_collected(metadata,
                                     [i \in 1..Len(sections_info) |->
                                           LegacySection(all_rows, sections_info[i], master, max_col,
                                                         metadata, today)])

parse_soa_workbook_bounded(today, all_rows, max_col, metadata, master, order) ==
        parse_soa_workbook_pass3(today, all_rows, max_col, metadata, master,
                                        [i \in 1..Len(order) |->
                                              [name |-> Strip(PyStr(NotNone(all_rows[order[i] + 1])[1])),
                                               start |-> order[i],
                                               end |-> IF i < Len(order) THEN order[i + 1] ELSE Len(all_rows)]])

parse_soa_workbook_pass2(today, all_rows, max_col, metadata, master) ==
        parse_soa_workbook_bounded(today, all_rows, max_col, metadata, master,
                                          SelectSeq([i \in 1..Len(all_rows) |-> i - 1],
                                              LAMBDA idx : /\ idx # master
                                                           /\ _is_section_header(all_rows[idx + 1], max_col)))

parse_soa_workbook_headed(today, all_rows, max_col, metadata, headers) ==
        parse_soa_workbook_pass2(today, all_rows, max_col, metadata, IF headers = {} THEN -1 ELSE SetMin(headers))

parse_soa_workbook_pass1(today, all_rows, max_col) ==
        parse_soa_workbook_headed(today, all_rows, max_col, LegacyMeta(EmptyMap, all_rows, 1),
                                         {idx \in 0..(Len(all_rows) - 1) : _is_header_row(all_rows[idx + 1])})

parse_soa_workbook_sheet(today, all_rows) ==
        parse_soa_workbook_pass1(today, all_rows, IF Len(all_rows) = 0 THEN 20 ELSE Len(all_rows[1]))

\* parse_soa_workbook(file) run on the day today.  The file is a source; a
\* container openpyxl cannot open makes load_workbook raise.
parse_soa_workbook(file, today) ==
    IF ~file.book.valid THEN Raise("File is not a zip file")
    ELSE parse_soa_workbook_sheet(today, file.book.sheets[1].rows)

(***************************************************************************)
(* Specification of the column mappers: the header row is the input, one   *)
(* action per mapper.                                                      *)
(***************************************************************************)
MaxCols == 3

HeaderCells ==
    { StrV("Amount in Doc. Curr."), StrV("Currency"), StrV(" Curr "),
      StrV("Reference"), StrV("Doc No"), None }

Headers == UNION { [1..w -> HeaderCells] : w \in 1..MaxCols }

InitMapper ==
    /\ now = StartDay
    /\ seed \in Seeds
    /\ op = "init"
    /\ arg \in Headers
    /\ ret = None
    /\ hist = << >>

\* _map_soa_columns(header_row): mapping is the local dict after the alias
\* loop, col_map the returned dict.
MapSoaColumns ==
    /\ op = "init"
    /\ op' = "_map_soa_columns"
    /\ ret' = [table |-> _SOA_COL_ALIASES,
               mapping |-> AliasPass(arg, _SOA_COL_ALIASES, 1, EmptyMap),
               col_map |-> _map_soa_columns(arg)]
    /\ UNCHANGED <<now, seed, arg, hist>>

\* _map_generic_columns(header_row, _INV_COL_ALIASES), as _parse_invoice_list calls it.
MapInvoiceColumns ==
    /\ op = "init"
    /\ op' = "_map_generic_columns"
    /\ ret' = [table |-> _INV_COL_ALIASES,
               mapping |-> _map_generic_columns(arg, _INV_COL_ALIASES),
               col_map |-> _map_generic_columns(arg, _INV_COL_ALIASES)]
    /\ UNCHANGED <<now, seed, arg, hist>>

\* _map_columns(_normalise_header(row)), as parse_soa_workbook calls it.
MapColumns ==
    /\ op = "init"
    /\ op' = "_map_columns"
    /\ ret' = [table |-> << >>,
               mapping |-> _map_columns(_normalise_header(arg)),
               col_map |-> _map_columns(_normalise_header(arg))]
    /\ UNCHANGED <<now, seed, arg, hist>>

NextMapper == MapSoaColumns \/ MapInvoiceColumns \/ MapColumns

SpecMapper == InitMapper /\ [][NextMapper]_vars

MapperOps == {"_map_soa_columns", "_map_generic_columns", "_map_columns"}

\* Lower-cased, stripped text of header column i ("" when blank).
HeaderText(header_row, i) ==
    IF _is_blank(header_row[i + 1]) THEN "" ELSE Lower(_clean(header_row[i + 1]))

Cols(header_row) == 0..(Len(header_row) - 1)

AmountAliases == <<"amount in doc", "amount", "balance", "value">>

\* Columns whose text holds an alias of amount and also "curr".
AmountCurrCols(header_row) ==
    {i \in Cols(header_row) :
        AnyIn(AmountAliases, HeaderText(header_row, i))
        /\ Contains(HeaderText(header_row, i), "curr")}

\* Columns that are a currency header.
CurrencyCols(header_row) ==
    {i \in Cols(header_row) : HeaderText(header_row, i) = "currency"}

\* A header row with exactly one amount-with-"curr" cell, exactly one
\* currency header, and no other cell that mentions "curr".
AmountCurrCase(header_row) ==
    /\ Cardinality(AmountCurrCols(header_row)) = 1
    /\ Cardinality(CurrencyCols(header_row)) = 1
    /\ \A i \in Cols(header_row) :
          Contains(HeaderText(header_row, i), "curr")
              => i \in AmountCurrCols(header_row) \cup CurrencyCols(header_row)

\* C8: for every header row in which one cell holds an alias of amount and
\* also "curr" and another cell is a currency header, every mapper (statement
\* table, invoice-register table, legacy chain) gives amount the first cell's
\* column and currency the other cell's column.
C8_AmountOwnsItsColumn ==
    (op \in MapperOps /\ AmountCurrCase(arg)) =>
        /\ "amount" \in DOMAIN ret.mapping
        /\ "currency" \in DOMAIN ret.mapping
        /\ ret.mapping["amount"] \in AmountCurrCols(arg)
        /\ ret.mapping["currency"] \in CurrencyCols(arg)

\* The columns that can still go to table entry p: not blank, an alias of the
\* entry inside the lower-cased text, and not owned by an earlier entry.
FreeMatches(header_row, table, m, p) ==
    {i \in Cols(header_row) :
        /\ HeaderText(header_row, i) # ""
        /\ AnyIn(table[p].a, HeaderText(header_row, i))
        /\ \A q \in 1..(p - 1) :
              table[q].f \in DOMAIN m => m[table[q].f] # i}

\* C9: in the alias pass, fields are taken in table order; each field gets
\* the leftmost column whose lower-cased text contains one of its aliases and
\* that no earlier field owns (no column when there is none), and no column
\* is owned by two fields.
C9_GreedyClaimOnce ==
    (op \in {"_map_soa_columns", "_map_generic_columns"}) =>
        LET m == ret.mapping
            T == ret.table
        IN  /\ DOMAIN m \subseteq {T[p].f : p \in 1..Len(T)}
            /\ \A p \in 1..Len(T) :
                  LET c == FreeMatches(arg, T, m, p)
                  IN  IF c = {} THEN T[p].f \notin DOMAIN m
                      ELSE /\ T[p].f \in DOMAIN m
                           /\ m[T[p].f] \in c
                           /\ \A j \in c : m[T[p].f] <= j
            /\ \A f, g \in DOMAIN m : f # g => m[f] # m[g]

\* A later field's alias matches a column an earlier field owns, and the
\* later field is mapped elsewhere or not at all.
C9_Witness ==
    /\ op \in {"_map_soa_columns", "_map_generic_columns"}
    /\ \E p \in 1..Len(ret.table) : \E q \in 1..(p - 1) :
          /\ ret.table[q].f \in DOMAIN ret.mapping
          /\ AnyIn(ret.table[p].a, HeaderText(arg, ret.mapping[ret.table[q].f]))
          /\ ret.table[p].f \in DOMAIN ret.mapping

(***************************************************************************)
(* Workbooks the specifications parse                                      *)
(***************************************************************************)
\* A row of text cells, "" for an empty cell.
TextRow(cells) == [i \in 1..Len(cells) |-> StrV(cells[i])]

\* A row padded with NaN to the width of its sheet, as pandas reads it.
Pad(row, width) == [i \in 1..width |-> IF i <= Len(row) THEN row[i] ELSE None]

EmptyGrid == << >>

\* The statement sheet of the end-to-end scenario.
SoaExample ==
    << Pad(TextRow(<<"TotalCare Charges">>), 7),
       TextRow(<<"Company", "Account", "Reference", "Doc Date", "Due Date", "Amount", "Curr">>),
       <<IntV(100), IntV(200), StrV("INV1"), StrV("01/01/2026"), StrV("01/02/2026"),
         FloatV(50000), StrV("USD")>>,
       Pad(<<StrV(""), StrV(""), StrV(""), StrV(""), StrV("Total"), FloatV(50000)>>, 7) >>

\* A statement sheet whose header row the universal extractor discovers.
SoaStatement ==
    << TextRow(<<"Company Code", "Account", "Reference", "Doc Date", "Due Date", "Amount",
                 "Curr">>),
       Pad(TextRow(<<"TotalCare Charges">>), 7),
       <<IntV(100), IntV(200), StrV("INV1"), StrV("01/01/2026"), StrV("01/02/2026"),
         FloatV(50000), StrV("USD")>>,
       <<IntV(100), IntV(200), StrV("INV2"), StrV("05/01/2026"), StrV("05/02/2026"),
         FloatV(-2550), StrV("EUR")>>,
       Pad(<<StrV(""), StrV(""), StrV(""), StrV(""), StrV("Total"), FloatV(47450)>>, 7) >>

\* An invoice register of two columns.
InvShort ==
    << TextRow(<<"Amount in Doc. Curr.", "Currency">>),
       <<FloatV(50000), StrV("USD")>> >>

\* An invoice register with the usual columns.
InvRegister ==
    << TextRow(<<"Reference", "Document Date", "Net due date", "Amount", "Currency",
                 "Assignment", "Text">>),
       <<StrV("INV1"), StrV("01/01/2026"), StrV("01/02/2026"), FloatV(50000), StrV("USD"),
         StrV("A1"), StrV("ESN 91020 fix")>>,
       <<StrV("INV3"), DateV(20260105), None, FloatV(1000), StrV("EUR"), None, None>>,
       <<StrV("INV3"), None, None, FloatV(-1000), StrV("EUR"), None, None>>,
       <<None, None, None, FloatV(50000), None, None, None>> >>

\* An invoice register and a statement whose one record has no currency.
InvNoCurrency ==
    << TextRow(<<"Reference", "Document Date", "Net due date", "Amount", "Currency">>),
       <<StrV("INV9"), StrV("01/01/2026"), None, FloatV(1000), None>> >>

SoaNoCurrency ==
    << TextRow(<<"Company Code", "Account", "Reference", "Doc Date", "Due Date", "Amount",
                 "Curr">>),
       <<IntV(100), IntV(200), StrV("INV9"), StrV("01/01/2026"), None, FloatV(1000), None>> >>

\* A shop-visit report.
ShopReport ==
    << TextRow(<<"Serial Number", "Part Number", "Rework Level">>),
       <<IntV(91020), StrV("TRENT900 A"), StrV("Shop Visit")>>,
       <<FloatV(9102100), StrV("T7000 B"), StrV("Shop Visit")>>,
       <<None, StrV("X"), None>> >>

\* A sheet no type claims.
PlainGrid ==
    << TextRow(<<"Name", "Qty", "Name">>),
       <<StrV("bolt"), FloatV(300), DateV(20260105)>> >>

Sheet(name, rows) == [name |-> name, rows |-> rows]

Workbooks ==
    { <<Sheet("Data", EmptyGrid)>>,
      <<Sheet("SOA", EmptyGrid)>>,
      <<Sheet("Data", SoaExample)>>,
      <<Sheet("Data", SoaStatement)>>,
      <<Sheet("Data", InvShort)>>,
      <<Sheet("Data", InvShort), Sheet("Notes", EmptyGrid)>>,
      <<Sheet("Data", InvRegister)>>,
      <<Sheet("Cover", EmptyGrid)>>,
      <<Sheet("Report Page 1", EmptyGrid)>>,
      <<Sheet("Report Page 1", ShopReport)>>,
      <<Sheet("CLAIMS SUMMARY", EmptyGrid)>>,
      <<Sheet("Menu", EmptyGrid)>>,
      <<Sheet("Data", PlainGrid)>>,
      <<Sheet("Cover", SoaExample)>>,
      <<Sheet("Data", InvNoCurrency)>>,
      <<Sheet("SOA", SoaNoCurrency)>>,
      <<Sheet("Data", InvShort), Sheet("SOA 26.1", EmptyGrid)>>,
      << >> }

Books == {[valid |-> TRUE, sheets |-> w] : w \in Workbooks} \cup {NoBook}

\* Base64 text that decodes, base64 text that does not, and two paths.
SourceTexts == {"QUJD", "abc", "a.xlsx", "book.xlsx"}

Sources ==
    {[form |-> f, text |-> "", book |-> b] : f \in {"bytes", "stream"}, b \in Books}
    \cup {[form |-> "str", text |-> t, book |-> b] : t \in SourceTexts \ {"abc"}, b \in Books}
    \cup {[form |-> "str", text |-> "abc", book |-> NoBook]}

FileNames == {"a.xlsx", "b.xlsx"}

\* C23: in the column map _map_soa_columns returns (alias matches plus the
\* positional defaults), every field has a column index and no column index
\* is owned by more than one field.
C23_ColMapTotalAndInjective ==
    op = "_map_soa_columns" =>
        /\ DOMAIN ret.col_map = DOMAIN _SOA_POSITIONAL
        /\ \A f, g \in DOMAIN ret.col_map :
              f # g => ret.col_map[f] # ret.col_map[g]

(***************************************************************************)
(* Specification of parse_file: the call is the input, ParseFile runs it.  *)
(***************************************************************************)
InitParse ==
    /\ now = StartDay
    /\ seed \in Seeds
    /\ op = "init"
    /\ arg \in [source : Sources, filename : {"a.xlsx"}, is_base64 : BOOLEAN]
    /\ ret = None
    /\ hist = << >>

ParseFile ==
    /\ op = "init"
    /\ op' = "parse_file"
    /\ ret' = parse_file(arg.source, arg.filename, arg.is_base64, seed)
    /\ UNCHANGED <<now, seed, arg, hist>>

NextParse == ParseFile

SpecParse == InitParse /\ [][NextParse]_vars

\* The call of the state has run.
Parsed == op = "parse_file"

\* The workbook of the call cannot be read: the text does not decode, the
\* container does not open, or no sheet of it loads.
Corrupted == DecodeFails(arg.source, arg.is_base64)
             \/ Len(LoadedSheets(arg.source, arg.is_base64)) = 0

\* The workbook of the call loads and holds no data: no sheet has a cell.
EmptyWorkbook ==
    /\ ~Corrupted
    /\ \A i \in 1..Len(LoadedSheets(arg.source, arg.is_base64)) :
            NotNaCount(LoadedSheets(arg.source, arg.is_base64)[i].rows) = 0

\* C1: every call of parse_file returns a result with a file type and an
\* errors list, and when the workbook is corrupted or empty the file type is
\* ERROR or UNKNOWN and the errors list is not empty.
C1_CorruptedOrEmptyIsReported ==
    Parsed =>
        /\ {"file_type", "errors"} \subseteq DOMAIN ret
        /\ (Corrupted \/ EmptyWorkbook) =>
                (ret.file_type \in {"ERROR", "UNKNOWN"} /\ Len(ret.errors) > 0)

\* The type detected for the workbook of the call, and what its extractor
\* and the generic extractor do on its sheets.
Detected == detect_file_type(LoadedSheets(arg.source, arg.is_base64))
Primary == Extract(Detected, LoadedSheets(arg.source, arg.is_base64), arg.filename, seed)
Generic == _parse_unknown(LoadedSheets(arg.source, arg.is_base64), arg.filename)

\* The extractor of a recognised type raised during the call.
ExtractorCrashed == Parsed /\ ~Corrupted /\ Detected # "UNKNOWN" /\ Primary.raised

\* The result is the generic extractor's output with the type suffixed
\* _FALLBACK and the crash message appended to its errors.
IsFallbackResult ==
    /\ ~Generic.raised
    /\ ret.file_type = Detected \o "_FALLBACK"
    /\ ret.metadata = Generic.value.metadata
    /\ ret.sheets = Generic.value.sheets
    /\ Len(ret.errors) = Len(Generic.value.errors) + 1
    /\ SubSeq(ret.errors, 1, Len(Generic.value.errors)) = Generic.value.errors
    /\ Contains(ret.errors[Len(ret.errors)], Primary.msg)

\* C2 as stated: whenever the extractor of a recognised type raises, the
\* result is the generic fallback output with file type <type>_FALLBACK and
\* the crash message appended to the errors list.
C2_CrashGivesFallback == ExtractorCrashed => IsFallbackResult

\* C2 amended: when the extractor of a recognised type raises, the result is
\* the fallback output (type suffixed _FALLBACK, crash message appended) if
\* the generic extractor returns on the same sheets, and otherwise an ERROR
\* result whose errors are the crash message and the fallback's message.
C2_CrashGivesFallbackOrError ==
    ExtractorCrashed =>
        IF ~Generic.raised THEN IsFallbackResult
        ELSE /\ ret.file_type = "ERROR"
             /\ Len(ret.errors) = 2
             /\ Contains(ret.errors[1], Primary.msg)
             /\ Contains(ret.errors[2], Generic.msg)

\* A crash of the invoice-register extractor that the generic extractor
\* recovers: the fallback result carries both messages.
C2_Witness ==
    /\ ExtractorCrashed
    /\ ~Generic.raised
    /\ ret.file_type = "INVOICE_LIST_FALLBACK"
    /\ Len(ret.errors) = 2

\* The call parsed the statement sheet of the end-to-end scenario.
ParsedExample ==
    /\ Parsed /\ ~Corrupted
    /\ LoadedSheets(arg.source, arg.is_base64) = <<Sheet("Data", SoaExample)>>

\* C7: the statement sheet of the scenario (title row, header row, one data
\* row, a Total row) gives exactly one section "TotalCare Charges" with one
\* record of amount 500.0 and reference INV1, and a block total of 500.0.
C7_ExampleStatement ==
    ParsedExample =>
        /\ ret.file_type = "SOA"
        /\ Len(ret.sections) = 1
        /\ ret.sections[1].name = "TotalCare Charges"
        /\ Len(ret.sections[1].items) = 1
        /\ ret.sections[1].items[1].amount = FloatV(50000)
        /\ ret.sections[1].items[1].reference = StrV("INV1")
        /\ ret.sections[1].total = FloatV(50000)

\* C10: every value parse_file returns has the keys file_type, metadata and
\* errors, and errors is a list.
C10_ResultKeys ==
    Parsed =>
        /\ {"file_type", "metadata", "errors"} \subseteq DOMAIN ret
        /\ ret.errors \in Seq(STRING)

\* The five types of the signal table, as a set.
TypeSet == {FileTypes[i] : i \in 1..Len(FileTypes)}

\* What the extractor of type t returns on the sheets of the call, written
\* out per type.
ExtractorOf(t) ==
    CASE t = "SOA" -> _parse_soa(LoadedSheets(arg.source, arg.is_base64), arg.filename)
      [] t = "INVOICE_LIST" ->
            _parse_invoice_list(LoadedSheets(arg.source, arg.is_base64), arg.filename, seed)
      [] t = "OPPORTUNITY_TRACKER" ->
            _parse_opportunity_tracker(LoadedSheets(arg.source, arg.is_base64), arg.filename)
      [] t = "SHOP_VISIT" ->
            _parse_shop_visit(LoadedSheets(arg.source, arg.is_base64), arg.filename, seed)
      [] t = "SVRG_MASTER" ->
            _parse_svrg_master(LoadedSheets(arg.source, arg.is_base64), arg.filename)
      [] OTHER -> _parse_unknown(LoadedSheets(arg.source, arg.is_base64), arg.filename)

\* C11: for a workbook that loads, the detected type is UNKNOWN exactly when
\* every type's score (8 per sheet-name boost, 1 per signal phrase in the
\* first 25 rows, summed over the sheets) is zero, and otherwise is one of the
\* five types with a score no other type exceeds; the result of parse_file is
\* what that one type's extractor returns on all the sheets (the generic
\* extractor for UNKNOWN) whenever that extractor returns, and carries that
\* type suffixed _FALLBACK, or ERROR, when it raises.
C11_TopScoreRoutes ==
    (Parsed /\ ~Corrupted) =>
        /\ (Detected = "UNKNOWN") <=>
                \A f \in TypeSet : TypeScore(LoadedSheets(arg.source, arg.is_base64), f) = 0
        /\ Detected # "UNKNOWN" =>
                /\ Detected \in TypeSet
                /\ \A f \in TypeSet :
                        TypeScore(LoadedSheets(arg.source, arg.is_base64), f)
                            <= TypeScore(LoadedSheets(arg.source, arg.is_base64), Detected)
        /\ IF ~ExtractorOf(Detected).raised
           THEN ret = ExtractorOf(Detected).value
           ELSE ret.file_type \in {Detected \o "_FALLBACK", "ERROR"}

\* A sheet named Cover that holds a statement: the statement type scores 1,
\* the tracker type scores 8 and its extractor produced the result.
C11_Witness ==
    /\ Parsed /\ ~Corrupted
    /\ TypeScore(LoadedSheets(arg.source, arg.is_base64), "SOA") > 0
    /\ TypeScore(LoadedSheets(arg.source, arg.is_base64), "OPPORTUNITY_TRACKER")
            > TypeScore(LoadedSheets(arg.source, arg.is_base64), "SOA")
    /\ Detected = "OPPORTUNITY_TRACKER"
    /\ ret.file_type = "OPPORTUNITY_TRACKER"

\* The records of a statement or invoice-register result.
RecordsOf(result) ==
    IF result.file_type = "INVOICE_LIST" THEN result.items
    ELSE IF result.file_type = "SOA"
        THEN Concat([i \in 1..Len(result.sections) |-> result.sections[i].items])
    ELSE << >>

\* The cells of a sheet.
CellsOf(sheet) ==
    UNION {{sheet.rows[r][k] : k \in 1..Len(sheet.rows[r])} : r \in 1..Len(sheet.rows)}

\* The texts of the cells of the workbook of the call that are not blank.
CellTexts ==
    {_clean(c) : c \in {cell \in UNION {CellsOf(LoadedSheets(arg.source, arg.is_base64)[j]) :
                                j \in 1..Len(LoadedSheets(arg.source, arg.is_base64))} :
                            ~_is_blank(cell)}}

\* The record fields the extractors fill with the text of one cell.
TextFields ==
    {"currency", "text", "assignment", "reference_key3", "rr_comments", "action_owner",
     "customer_comments", "po_reference"}

\* C17: in every record of a statement or an invoice register, a text field
\* is null or holds the text of a cell of the workbook: no field holds a
\* default string put in place of a blank source cell.
C17_BlankFieldIsNull ==
    (Parsed /\ ~Corrupted /\ ret.file_type \in {"INVOICE_LIST", "SOA"}) =>
        \A i \in 1..Len(RecordsOf(ret)) :
            \A f \in TextFields \cap DOMAIN RecordsOf(ret)[i] :
                \/ RecordsOf(ret)[i][f] = None
                \/ RecordsOf(ret)[i][f].s \in CellTexts

(***************************************************************************)
(* Specification of parse_session: the batch is the input, ParseSession    *)
(* runs it.                                                                *)
(***************************************************************************)
MaxFiles == 2

Upload(sheets) == [form |-> "str", text |-> "QUJD", book |-> [valid |-> TRUE, sheets |-> sheets]]

\* What a file of a batch holds: a statement, an invoice register, a
\* shop-visit report, a register whose extractor crashes, a container that
\* does not open and text that does not decode.
SessionData ==
    { Upload(<<Sheet("Data", SoaStatement)>>),
      Upload(<<Sheet("Data", InvRegister)>>),
      Upload(<<Sheet("Report Page 1", ShopReport)>>),
      Upload(<<Sheet("Data", InvShort)>>),
      [form |-> "str", text |-> "QUJD", book |-> NoBook],
      [form |-> "str", text |-> "abc", book |-> NoBook] }

Batches ==
    UNION {[1..n -> [name : FileNames, data : SessionData]] : n \in 0..MaxFiles}

InitSession ==
    /\ now = StartDay
    /\ seed \in Seeds
    /\ op = "init"
    /\ arg \in [files : Batches, is_base64 : BOOLEAN]
    /\ ret = None
    /\ hist = << >>

ParseSession ==
    /\ op = "init"
    /\ op' = "parse_session"
    /\ ret' = parse_session(arg.files, arg.is_base64, seed)
    /\ UNCHANGED <<now, seed, arg, hist>>

NextSession == ParseSession

SpecSession == InitSession /\ [][NextSession]_vars

\* The batch of the state has been parsed.
SessionRan == op = "parse_session"

\* What parse_session stores for the i-th file of the batch when it parses it.
OwnResult(i) ==
    Merge(parse_file(arg.files[i].data, arg.files[i].name, arg.is_base64, seed),
          [original_filename |-> arg.files[i].name])

\* The i-th file failed to load or its extractor crashed.
FileFailed(i) ==
    \/ OwnResult(i).file_type = "ERROR"
    \/ EndsWith(OwnResult(i).file_type, "_FALLBACK")

\* The files map holds the result of the i-th file under its name.
InFilesMap(i) ==
    \E k \in 1..Len(ret.files) :
        /\ ret.files[k].name = arg.files[i].name
        /\ ret.files[k].result = OwnResult(i)

\* C3: in parse_session a file that fails yields an ERROR or fallback result
\* for that file only: every other file of the batch is present in the files
\* map with its own result, and every per-file result has an errors field.
C3_FailureIsLocal ==
    SessionRan =>
        /\ \A i \in 1..Len(arg.files) : FileFailed(i) =>
                \A j \in 1..Len(arg.files) \ {i} : InFilesMap(j)
        /\ \A k \in 1..Len(ret.files) : "errors" \in DOMAIN ret.files[k].result

\* The keys extracted from the k-th entry of the files map.
KeysOfFile(k) == _extract_file_keys(ret.files[k].result, ret.files[k].name)

\* The keys of one type and value among the keys of the k-th entry.
HitsOfFile(k, kt, v) ==
    SelectSeq(KeysOfFile(k), LAMBDA key : key.key_type = kt /\ key.value = v)

\* The values of a key type extracted from any file of the batch.
ValuesOf(kt) ==
    UNION {{KeysOfFile(k)[i].value :
                i \in {j \in 1..Len(KeysOfFile(k)) : KeysOfFile(k)[j].key_type = kt}} :
           k \in 1..Len(ret.files)}

\* The entries of the files map that are not ERROR and yield the value.
FilesWith(kt, v) ==
    {k \in 1..Len(ret.files) : /\ ret.files[k].result.file_type # "ERROR"
                               /\ Len(HitsOfFile(k, kt, v)) > 0}

CrossRefs == ret.cross_references.cross_refs

InIndex(kt, v) == kt \in DOMAIN CrossRefs /\ v \in DOMAIN CrossRefs[kt]

KeyTypeSet == {KeyTypes[i] : i \in 1..Len(KeyTypes)}

\* C4: a (key type, value) group is in cross_refs if and only if the value
\* was extracted from at least two distinct files of the batch; the index
\* holds no other group and no empty key type.
C4_GroupIffTwoFiles ==
    SessionRan =>
        /\ DOMAIN CrossRefs \subseteq KeyTypeSet
        /\ \A kt \in DOMAIN CrossRefs :
                DOMAIN CrossRefs[kt] # {} /\ DOMAIN CrossRefs[kt] \subseteq ValuesOf(kt)
        /\ \A kt \in KeyTypeSet : \A v \in ValuesOf(kt) :
                InIndex(kt, v) <=> Cardinality(FilesWith(kt, v)) >= 2

\* A batch where INV1 comes from two files and is indexed while INV3 comes
\* twice from one file only and is not.
C4_Witness ==
    /\ SessionRan
    /\ InIndex("invoice_ref", "INV1")
    /\ ~InIndex("invoice_ref", "INV3")
    /\ \E k \in 1..Len(ret.files) : Len(HitsOfFile(k, "invoice_ref", "INV3")) = 2

\* The occurrence is the key with key_type and value taken out.
OccurrenceOfKey(occ, key) ==
    /\ DOMAIN occ = DOMAIN key \ {"key_type", "value"}
    /\ \A x \in DOMAIN occ : occ[x] = key[x]

\* C5: every group of cross_refs lists, for each file of the batch that is
\* not ERROR, every occurrence of the value extracted from it, in order and
\* under that file's name; it lists nothing else, and its occurrences have
\* at least two distinct file values.
C5_GroupListsEveryOccurrence ==
    SessionRan =>
        \A kt \in DOMAIN CrossRefs : \A v \in DOMAIN CrossRefs[kt] :
            LET occs == CrossRefs[kt][v]
                of(k) == SelectSeq(occs, LAMBDA occ : occ.file = ret.files[k].name)
                hits(k) == IF ret.files[k].result.file_type = "ERROR" THEN << >>
                           ELSE HitsOfFile(k, kt, v)
            IN  /\ \A j \in 1..Len(occs) :
                        /\ "file" \in DOMAIN occs[j]
                        /\ \E k \in 1..Len(ret.files) : occs[j].file = ret.files[k].name
                /\ \A k \in 1..Len(ret.files) :
                        /\ Len(of(k)) = Len(hits(k))
                        /\ \A j \in 1..Len(of(k)) : OccurrenceOfKey(of(k)[j], hits(k)[j])
                /\ Cardinality({occs[j].file : j \in 1..Len(occs)}) >= 2

\* A batch of two files that each hold INV3 twice: the group has the four
\* occurrences, two under each name.
C5_Witness ==
    /\ SessionRan
    /\ InIndex("invoice_ref", "INV3")
    /\ Len(CrossRefs["invoice_ref"]["INV3"]) = 4
    /\ {CrossRefs["invoice_ref"]["INV3"][j].file : j \in 1..4} = {"a.xlsx", "b.xlsx"}

Stats == ret.cross_references.stats

\* The entries of the files map whose result is not ERROR.
LiveFiles == {k \in 1..Len(ret.files) : ret.files[k].result.file_type # "ERROR"}

\* The (key type, value) groups extracted from two or more live files.
SharedGroups ==
    {g \in UNION {{<<kt, v>> : v \in ValuesOf(kt)} : kt \in KeyTypeSet} :
        Cardinality(FilesWith(g[1], g[2])) >= 2}

\* C28: cross_file_matches is the sum of matches_by_type, which counts the
\* retained groups of each key type; total_keys_extracted counts every key
\* extracted from the files that are not ERROR, and a file that is ERROR
\* contributes no key and no occurrence.
C28_StatsAgreeWithIndex ==
    SessionRan =>
        /\ DOMAIN Stats.matches_by_type = DOMAIN CrossRefs
        /\ \A kt \in DOMAIN CrossRefs :
              Stats.matches_by_type[kt] = Cardinality(DOMAIN CrossRefs[kt])
        /\ Stats.cross_file_matches
              = SumSeq([i \in 1..Len(KeyTypes) |->
                           IF KeyTypes[i] \in DOMAIN Stats.matches_by_type
                           THEN Stats.matches_by_type[KeyTypes[i]] ELSE 0])
        /\ Stats.cross_file_matches = Cardinality(SharedGroups)
        /\ Stats.total_keys_extracted
              = SumSeq([k \in 1..Len(ret.files) |->
                           IF k \in LiveFiles THEN Len(KeysOfFile(k)) ELSE 0])
        /\ \A kt \in DOMAIN CrossRefs : \A v \in DOMAIN CrossRefs[kt] :
              \A j \in 1..Len(CrossRefs[kt][v]) :
                  \E k \in LiveFiles : CrossRefs[kt][v][j].file = ret.files[k].name

\* A batch of two files that share values: one group holds more occurrences
\* than it has files, and the statistics count groups.
C28_Witness ==
    /\ SessionRan
    /\ Cardinality(LiveFiles) = 2
    /\ Stats.cross_file_matches >= 1
    /\ Stats.total_keys_extracted > Stats.cross_file_matches
    /\ \E kt \in DOMAIN CrossRefs : \E v \in DOMAIN CrossRefs[kt] :
          Len(CrossRefs[kt][v]) > 2

\* C29: after parse_session files_loaded is the number of files supplied and
\* every supplied file has its own result in the files map under its name,
\* two files of the same name included.
C29_EveryFileLoaded ==
    SessionRan =>
        /\ ret.session_summary.files_loaded = Len(arg.files)
        /\ \A i \in 1..Len(arg.files) : InFilesMap(i)

\* The same with the names of the batch pairwise different.
C29_EveryFileLoadedUnderDistinctNames ==
    (SessionRan /\ \A i, j \in 1..Len(arg.files) :
                      i # j => arg.files[i].name # arg.files[j].name) =>
        /\ ret.session_summary.files_loaded = Len(arg.files)
        /\ \A i \in 1..Len(arg.files) : InFilesMap(i)

(***************************************************************************)
(* Specification of repeated parsing: the same files are parsed again and  *)
(* again by either parser while the clock advances and the process is      *)
(* restarted; hist records every call with what it returned.               *)
(***************************************************************************)
MaxCalls == 2
MaxDays == 1

\* A statement that carries its report date.
SoaDated ==
    << Pad(<<StrV("Today"), DateV(20260205)>>, 7),
       Pad(TextRow(<<"TotalCare Charges">>), 7),
       TextRow(<<"Company", "Account", "Reference", "Doc Date", "Due Date", "Amount", "Curr">>),
       <<IntV(100), IntV(200), StrV("INV1"), StrV("01/01/2026"), StrV("01/02/2026"),
         FloatV(50000), StrV("USD")>> >>

Bytes(sheets) == [form |-> "bytes", text |-> "", book |-> [valid |-> TRUE, sheets |-> sheets]]

IdemFiles ==
    { Bytes(<<Sheet("Data", SoaExample)>>),
      Bytes(<<Sheet("Data", SoaDated)>>),
      Bytes(<<Sheet("Data", SoaStatement)>>),
      Bytes(<<Sheet("Data", InvRegister)>>) }

InitIdem ==
    /\ now = StartDay
    /\ seed \in Seeds
    /\ op = "init"
    /\ arg = None
    /\ ret = None
    /\ hist = << >>

\* parse_soa_workbook(file) at the present day.
LegacyParse ==
    \E file \in IdemFiles :
        /\ Len(hist) < MaxCalls
        /\ op' = "parse_soa_workbook"
        /\ arg' = file
        /\ ret' = parse_soa_workbook(file, now)
        /\ hist' = Append(hist, [fn |-> "parse_soa_workbook", arg |-> file, ret |-> ret'])
        /\ UNCHANGED <<now, seed>>

\* parse_file(file, filename="a.xlsx") in the present process.
UniversalParse ==
    \E file \in IdemFiles :
        /\ Len(hist) < MaxCalls
        /\ op' = "parse_file"
        /\ arg' = file
        /\ ret' = parse_file(file, "a.xlsx", FALSE, seed)
        /\ hist' = Append(hist, [fn |-> "parse_file", arg |-> file, ret |-> ret'])
        /\ UNCHANGED <<now, seed>>

\* Midnight passes.
Tick ==
    /\ now < StartDay + MaxDays
    /\ now' = now + 1
    /\ UNCHANGED <<seed, op, arg, ret, hist>>

\* The process is started again: str hashes get another seed.
Restart ==
    /\ seed' \in Seeds \ {seed}
    /\ UNCHANGED <<now, op, arg, ret, hist>>

NextIdem == LegacyParse \/ UniversalParse \/ Tick \/ Restart

SpecIdem == InitIdem /\ [][NextIdem]_vars

\* C6: two parses of the same bytes by the same parser return the same
\* output, whenever each runs and whatever was parsed in between.
C6_SameBytesSameOutput ==
    \A i, j \in 1..Len(hist) :
        (hist[i].fn = hist[j].fn /\ hist[i].arg = hist[j].arg) => hist[i].ret = hist[j].ret

(***************************************************************************)
(* Specification of the row classifiers: the row is the input, one action  *)
(* per classifier.                                                         *)
(***************************************************************************)
\* Cells of candidate header rows: empty, blank text, labels that hold header
\* keywords, a small number, a large number and a large number as text.
CandidateHeaderCells ==
    {None, StrV(""), StrV("Amount"), StrV("Reference"), StrV("Due Date"),
     IntV(50), StrV("1,000")}

CandidateHeaderRows == UNION {[1..w -> CandidateHeaderCells] : w \in 3..4}

RowWidth == 7

\* A row of RowWidth cells, empty but for a label in column i and a number in
\* column j (0-based).
LabelledRow(label, i, number, j) ==
    [c \in 1..RowWidth |-> IF c = i + 1 THEN StrV(label)
                           ELSE IF c = j + 1 THEN number ELSE None]

SummaryLabelTexts == {"Total Overdue", "TotalCare Charges", "Total"}

SummaryNumbers == {FloatV(123450), IntV(7)}

CandidateSummaryRows ==
    {LabelledRow(l, i, x, j) :
        l \in SummaryLabelTexts, x \in SummaryNumbers,
        i \in 0..(RowWidth - 1), j \in 0..(RowWidth - 1)}

\* The column maps the walk holds: the positional defaults, and the map of a
\* header that names two columns.
ColMaps == {_map_soa_columns(<< >>),
            _map_soa_columns(TextRow(<<"Due Date", "Amount">>))}

InitRows ==
    /\ now = StartDay
    /\ seed = 0
    /\ op = "init"
    /\ arg \in [row : CandidateHeaderRows \cup CandidateSummaryRows, col_map : ColMaps]
    /\ ret = None
    /\ hist = << >>

HeaderRowCheck ==
    /\ op = "init"
    /\ op' = "_is_header_row"
    /\ ret' = _is_header_row(arg.row)
    /\ UNCHANGED <<now, seed, arg, hist>>

SummaryRowCheck ==
    /\ op = "init"
    /\ op' = "_is_summary_row"
    /\ ret' = _is_summary_row(arg.row)
    /\ UNCHANGED <<now, seed, arg, hist>>

SoaSummaryRowCheck ==
    /\ op = "init"
    /\ op' = "_soa_is_summary_row"
    /\ ret' = _soa_is_summary_row(arg.row, arg.col_map)
    /\ UNCHANGED <<now, seed, arg, hist>>

NextRows == HeaderRowCheck \/ SummaryRowCheck \/ SoaSummaryRowCheck

SpecRows == InitRows /\ [][NextRows]_vars

\* The cells of the row that are not blank: neither empty nor text of blanks.
NonBlankCount(row) == Cardinality({i \in 1..Len(row) : ~_is_blank(row[i])})

\* Some cell of the row reads as a number above 100 in absolute value.
HasLargeNumber(row) ==
    \E i \in 1..Len(row) :
        /\ _coerce_amount(row[i]) # None
        /\ Abs(_coerce_amount(row[i]).n) > 10000

\* C12: the header-row detector answers False for every row with 3 or fewer
\* non-blank cells and for every row with a cell that coerces to a number of
\* absolute value above 100.
C12_HeaderNeedsFourCellsNoLargeNumber ==
    (op = "_is_header_row" /\ (NonBlankCount(arg.row) <= 3 \/ HasLargeNumber(arg.row)))
        => ret = FALSE

\* The row holds a cell with exactly this label.
HasLabel(row, label) == \E i \in 1..Len(row) : row[i] = StrV(label)

\* The numeric cells of the row, as the floats the result carries.
NumbersOf(row) == {FloatV(row[i].n) : i \in {c \in 1..Len(row) : IsNum(row[c])}}

\* C13: a row with a cell labelled "Total Overdue" and a numeric cell is a
\* summary row that yields ("total overdue", that number) in whichever columns
\* the two sit, and a row whose only text is the section label "TotalCare
\* Charges", next to a number, is not a summary row; the legacy detector names
\* the first row "total overdue" and answers None for the second.
C13_TotalOverdueAnywhere ==
    /\ (op = "_soa_is_summary_row" /\ HasLabel(arg.row, "Total Overdue")
            /\ NumbersOf(arg.row) # {}) =>
            (ret.hit /\ ret.kw = "total overdue" /\ ret.amt \in NumbersOf(arg.row))
    /\ (op = "_soa_is_summary_row" /\ HasLabel(arg.row, "TotalCare Charges")
            /\ arg.row \in CandidateSummaryRows /\ NumbersOf(arg.row) # {}) => ~ret.hit
    /\ (op = "_is_summary_row" /\ HasLabel(arg.row, "Total Overdue")) => ret = "total overdue"
    /\ (op = "_is_summary_row" /\ HasLabel(arg.row, "TotalCare Charges")
            /\ arg.row \in CandidateSummaryRows /\ NumbersOf(arg.row) # {}) => ret = ""

(***************************************************************************)
(* Specification of the cell coercers: the cell is the input, one action   *)
(* per coercer.  ret is Return(value) or Raise(message).                   *)
(***************************************************************************)
CoerceTexts ==
    {"", "  ", "$1,234.56", "(1,234.56)", "-", "n/a", "abc", "INV1", "12", "12.5",
     "1 000", "$ -", "31/01/2026", "01/31/2026", "2026-01-05", "05.01.2026",
     "2026-01-05 00:00:00", "31/02/2026", " 7 "}

CoerceCells ==
    {None, NaN, Inf(1), Inf(-1), IntV(5), IntV(-3), FloatV(123456), FloatV(-50),
     FloatV(700), DateV(20260105)}
    \cup {StrV(t) : t \in CoerceTexts}

\* The cells handed to the date coercers: the lenient parser is modelled on
\* date text and on text without a digit, which it cannot read.
DateTexts ==
    {"", "  ", "-", "n/a", "abc", "$ -", "31/01/2026", "01/31/2026", "2026-01-05",
     "05.01.2026", "2026-01-05 00:00:00"}

DateCoerceCells ==
    {None, NaN, Inf(1), Inf(-1), DateV(20260105)} \cup {StrV(t) : t \in DateTexts}

InitCoerce ==
    /\ now = StartDay
    /\ seed = 0
    /\ op = "init"
    /\ arg \in CoerceCells
    /\ ret = None
    /\ hist = << >>

Clean ==
    /\ op = "init"
    /\ op' = "_clean"
    /\ ret' = Return(StrV(_clean(arg)))
    /\ UNCHANGED <<now, seed, arg, hist>>

ToDate ==
    /\ op = "init"
    /\ arg \in DateCoerceCells
    /\ op' = "_to_date"
    /\ ret' = Return(_to_date(arg))
    /\ UNCHANGED <<now, seed, arg, hist>>

ToFloat ==
    /\ op = "init"
    /\ op' = "_to_float"
    /\ ret' = Return(_to_float(arg))
    /\ UNCHANGED <<now, seed, arg, hist>>

\* `v == int(v)` is evaluated for every float that is not blank.
ToStrRef ==
    /\ op = "init"
    /\ op' = "_to_str_ref"
    /\ ret' = IF IntOverflows(arg) THEN Raise(OverflowMessage) ELSE Return(_to_str_ref(arg))
    /\ UNCHANGED <<now, seed, arg, hist>>

CoerceAmount ==
    /\ op = "init"
    /\ op' = "_coerce_amount"
    /\ ret' = Return(_coerce_amount(arg))
    /\ UNCHANGED <<now, seed, arg, hist>>

CoerceDate ==
    /\ op = "init"
    /\ arg \in DateCoerceCells
    /\ op' = "_coerce_date"
    /\ ret' = Return(_coerce_date(arg))
    /\ UNCHANGED <<now, seed, arg, hist>>

\* int(float(val)) catches ValueError and TypeError only.
CoerceInt ==
    /\ op = "init"
    /\ op' = "_coerce_int"
    /\ ret' = IF IntOverflows(arg) THEN Raise(OverflowMessage) ELSE Return(_coerce_int(arg))
    /\ UNCHANGED <<now, seed, arg, hist>>

NextCoerce ==
    Clean \/ ToDate \/ ToFloat \/ ToStrRef \/ CoerceAmount \/ CoerceDate \/ CoerceInt

SpecCoerce == InitCoerce /\ [][NextCoerce]_vars

\* A text cell that is not blank and that neither the formats of the list
\* nor the lenient parser read as a date.
Unparseable(v, fmts, lenient) ==
    /\ v.k = "str" /\ ~_is_blank(v)
    /\ TryFormats(Strip(v.s), fmts) = -1
    /\ ~lenient \/ LenientDate(Strip(v.s)) = -1

\* C14: each date coercer returns, and returns null, for every blank cell and
\* for every text cell that neither its formats nor (where it has one) its
\* lenient fallback can read; the unparsed text is never the result.
C14_UnparseableDateIsNull ==
    /\ (op = "_to_date" /\ (_is_blank(arg) \/ Unparseable(arg, _DATE_FMTS, TRUE)))
            => ret = Return(None)
    /\ (op = "_coerce_date" /\ (arg.k = "none" \/ _is_blank(arg)
                                    \/ Unparseable(arg, LegacyDateFmts, FALSE)))
            => ret = Return(None)

\* The coercers of the two parsers.
Coercers ==
    {"_clean", "_to_date", "_to_float", "_to_str_ref",
     "_coerce_amount", "_coerce_date", "_coerce_int"}

\* C15: every coercer returns (a value or null) for every cell value: null,
\* text, a number, NaN, infinity or a date; none raises.
C15_CoercersAreTotal == op \in Coercers => ~ret.raised

\* C16: each amount coercer maps "$1,234.56" to 1234.56, "(1,234.56)" to
\* -1234.56 and "-" to null.
C16_AmountExamples ==
    op \in {"_to_float", "_coerce_amount"} =>
        /\ arg = StrV("$1,234.56") => ret = Return(FloatV(123456))
        /\ arg = StrV("(1,234.56)") => ret = Return(FloatV(-123456))
        /\ arg = StrV("-") => ret = Return(None)

(***************************************************************************)
(* Serialization (parser.py): _serialize_value and serialize_parsed_data.  *)
(* numpy scalars are further value kinds: "np_int" (np.integer), "np_bool" *)
(* (np.bool_) and "np_float", an np.floating that is not a Python float    *)
(* (np.float32), with s = "float", "nan" or "inf" for what it holds.       *)
(* np.float64 is a Python float and is the kind "float", "nan" or "inf".   *)
(***************************************************************************)
NpInt(i) == [k |-> "np_int", s |-> "", n |-> i * 100]
NpFloat(v) == [k |-> "np_float", s |-> v.k, n |-> v.n]
NpBool(b) == [k |-> "np_bool", s |-> "", n |-> IF b THEN 1 ELSE 0]
BoolV(b) == [k |-> "bool", s |-> "", n |-> IF b THEN 1 ELSE 0]

\* datetime.isoformat() of a datetime at midnight.
IsoFormat(ymd) == IsoDate(ymd) \o "T00:00:00"

_serialize_value(val) ==
    CASE val.k = "none" -> None
      [] val.k = "date" -> StrV(IsoFormat(val.n))
      [] val.k \in {"nan", "inf"} -> None
      [] val.k = "float" -> val
      [] val.k = "np_int" -> [k |-> "int", s |-> "", n |-> val.n]
      [] val.k = "np_float" ->
            IF val.s = "nan" THEN None ELSE [k |-> val.s, s |-> "", n |-> val.n]
      [] val.k = "np_bool" -> BoolV(val.n = 1)
      [] OTHER -> val

\* {k: _serialize_value(v) for k, v in d.items()}
SerializeDict(d) == [key \in DOMAIN d |-> _serialize_value(d[key])]

\* A cell value, as opposed to a dict.
IsValue(x) == DOMAIN x = {"k", "s", "n"}

serialize_parsed_data(parsed) ==
    [metadata |-> SerializeDict(parsed.metadata),
     sections |-> [i \in 1..Len(parsed.sections) |->
                      [name |-> parsed.sections[i].name,
                       header |-> parsed.sections[i].header,
                       rows |-> [j \in 1..Len(parsed.sections[i].rows) |->
                                    SerializeDict(parsed.sections[i].rows[j])],
                       totals |-> SerializeDict(parsed.sections[i].totals)]],
     all_items |-> [j \in 1..Len(parsed.all_items) |-> SerializeDict(parsed.all_items[j])],
     grand_totals |-> [key \in DOMAIN parsed.grand_totals |->
                          IF IsValue(parsed.grand_totals[key])
                          THEN _serialize_value(parsed.grand_totals[key])
                          ELSE SerializeDict(parsed.grand_totals[key])]]

(***************************************************************************)
(* Specification of serialization: the parse result is the input,          *)
(* Serialize runs serialize_parsed_data on it.                             *)
(***************************************************************************)
\* What parse_soa_workbook returns for the files of the model.
ParsedResults == {parse_soa_workbook(f, StartDay).value : f \in IdemFiles}

\* The result of the statement that carries its report date.
DatedResult == parse_soa_workbook(Bytes(<<Sheet("Data", SoaDated)>>), StartDay).value

\* Values a result may hold: what the coercers store (an amount cell of NaN
\* or infinity stays one) and the numpy scalars serialization names.
SerialValues ==
    {None, StrV("x"), IntV(3), FloatV(150), NaN, Inf(1), Inf(-1), DateV(20260105),
     NpInt(7), NpFloat(FloatV(150)), NpFloat(NaN), NpFloat(Inf(1)), NpBool(TRUE)}

\* The result p with the value x at one place.
WithValue(p, place, x) ==
    CASE place = "metadata" -> [p EXCEPT !.metadata = Put(@, "lpi_rate", x)]
      [] place = "row" -> [p EXCEPT !.sections[1].rows[1] = Put(@, "Amount", x)]
      [] place = "totals" -> [p EXCEPT !.sections[1].totals = Put(@, "total", x)]
      [] place = "item" -> [p EXCEPT !.all_items[1] = Put(@, "Amount", x)]
      [] place = "grand" -> [p EXCEPT !.grand_totals = Put(@, "net_balance", x)]
      [] place = "nested" ->
            [p EXCEPT !.grand_totals =
                Put(@, "section_totals", Put(EmptyMap, p.sections[1].name, x))]

Places == {"metadata", "row", "totals", "item", "grand", "nested"}

SerialInputs ==
    ParsedResults \cup {WithValue(DatedResult, place, x) : place \in Places, x \in SerialValues}

InitSerialize ==
    /\ now = StartDay
    /\ seed = 0
    /\ op = "init"
    /\ arg \in SerialInputs
    /\ ret = None
    /\ hist = << >>

Serialize ==
    /\ op = "init"
    /\ op' = "serialize_parsed_data"
    /\ ret' = serialize_parsed_data(arg)
    /\ UNCHANGED <<now, seed, arg, hist>>

NextSerialize == Serialize

SpecSerialize == InitSerialize /\ [][NextSerialize]_vars

\* The values of a dict.
DictValues(d) == {d[key] : key \in DOMAIN d}

\* The values of the rows of a section.
RowValues(section) == UNION {DictValues(section.rows[j]) : j \in 1..Len(section.rows)}

\* Every value of a serialized result, one level into the nested totals.
OutputValues(out) ==
    DictValues(out.metadata)
    \cup UNION {RowValues(out.sections[i]) : i \in 1..Len(out.sections)}
    \cup UNION {DictValues(out.sections[i].totals) : i \in 1..Len(out.sections)}
    \cup UNION {{out.sections[i].header[c] : c \in 1..Len(out.sections[i].header)} :
                    i \in {s \in 1..Len(out.sections) : out.sections[s].header # None}}
    \cup UNION {DictValues(out.all_items[j]) : j \in 1..Len(out.all_items)}
    \cup UNION {IF IsValue(out.grand_totals[key]) THEN {out.grand_totals[key]}
                ELSE DictValues(out.grand_totals[key]) : key \in DOMAIN out.grand_totals}

MaxWalkRows == 2

\* A charge line: company code, account, reference, dates, amount, currency.
WalkDataRow ==
    <<IntV(100), IntV(200), StrV("INV1"), StrV("01/01/2026"), StrV("01/02/2026"),
      FloatV(50000), StrV("USD")>>

WalkWidth == Len(WalkDataRow)

\* "Total" beside the amount, as the sheets print a section total.
WalkTotalRow ==
    Pad(<<None, None, None, None, StrV("Total"), FloatV(50000)>>, WalkWidth)

WalkOverdueRow ==
    Pad(<<None, None, None, None, StrV("Total Overdue"), FloatV(1000)>>, WalkWidth)

\* "Overdue" beside an amount, as the sheets print a section's overdue sum.
WalkSectionOverdueRow ==
    Pad(<<None, None, None, None, StrV("Overdue"), FloatV(1200)>>, WalkWidth)

WalkCreditRow ==
    Pad(<<None, None, None, None, StrV("Available Credit"), FloatV(300)>>, WalkWidth)

WalkTitleRow == Pad(TextRow(<<"TotalCare Charges">>), WalkWidth)

\* A row that both names a section and carries a total.
WalkTitledTotalRow ==
    Pad(<<StrV("Other Charges"), None, None, None, StrV("Total"), FloatV(700)>>, WalkWidth)

\* A row that both names a section and carries a reference and an amount.
WalkTitledDataRow ==
    Pad(<<StrV("Spare Parts Charges"), None, StrV("INV2"), None, None, FloatV(30000)>>,
        WalkWidth)

\* A repeated header row with the columns in another order.
WalkHeaderRow ==
    TextRow(<<"Reference", "Amount", "Due Date", "Currency", "Company", "Account", "Text">>)

WalkNoteRow == Pad(TextRow(<<"see remarks">>), WalkWidth)

WalkBlankRow == Pad(<< >>, WalkWidth)

WalkRows ==
    {WalkDataRow, WalkTotalRow, WalkOverdueRow, WalkSectionOverdueRow, WalkCreditRow,
     WalkTitleRow, WalkTitledTotalRow, WalkTitledDataRow, WalkHeaderRow, WalkNoteRow,
     WalkBlankRow}

WalkSheets == UNION {[1..n -> WalkRows] : n \in 1..MaxWalkRows}

\* The header row the legacy parser found above the section.
WalkMasterHeader ==
    _normalise_header(TextRow(<<"Company", "Account", "Reference", "Doc Date", "Due Date",
                                "Amount", "Curr">>))

\* The state of _parse_soa when the walk starts: no section open.
SoaWalkStart == [sections |-> << >>, cur |-> << >>, total_overdue |-> None]

\* The state of one section's pass of parse_soa_workbook when its walk starts.
LegacyWalkStart ==
    [header |-> WalkMasterHeader, col_map |-> LegacyColMap(WalkMasterHeader),
     rows |-> << >>, totals |-> EmptyMap]

InitWalk ==
    /\ now = StartDay
    /\ seed = 0
    /\ op = "init"
    /\ \E parser \in {"universal", "legacy"}, rows \in WalkSheets :
          /\ arg = [parser |-> parser, rows |-> rows, col_map |-> _SOA_POSITIONAL,
                    sec_name |-> "TotalCare Charges"]
          /\ ret = [i |-> 0, acc |-> IF parser = "universal" THEN SoaWalkStart
                                     ELSE LegacyWalkStart]
    /\ hist = << >>

\* One iteration of `for i in range(header_row_idx + 1, len(rows))`.
SoaRow ==
    /\ arg.parser = "universal"
    /\ ret.i < Len(arg.rows)
    /\ op' = "_parse_soa"
    /\ ret' = [i |-> ret.i + 1,
               acc |-> SoaWalkRow(ret.acc, arg.rows[ret.i + 1], arg.col_map)]
    /\ UNCHANGED <<now, seed, arg, hist>>

\* One iteration of `for ri in range(data_start, end)`.
LegacyRow ==
    /\ arg.parser = "legacy"
    /\ ret.i < Len(arg.rows)
    /\ op' = "parse_soa_workbook"
    /\ ret' = [i |-> ret.i + 1,
               acc |-> LegacyRowStep(ret.acc, arg.rows[ret.i + 1], WalkWidth,
                                     arg.sec_name, EmptyMap, now)]
    /\ UNCHANGED <<now, seed, arg, hist>>

NextWalk == SoaRow \/ LegacyRow

SpecWalk == InitWalk /\ [][NextWalk]_vars

\* The sections a walk state holds, the open one last.
WalkSections(acc) == acc.sections \o acc.cur

\* How many records the walk has produced so far.
WalkRecords(parser, acc) ==
    IF parser = "universal"
    THEN Cardinality({p \in (1..Len(WalkSections(acc))) \X (1..MaxWalkRows) :
                        p[2] <= Len(WalkSections(acc)[p[1]].items)})
    ELSE Len(acc.rows)

\* How many sections the walk has opened so far.
WalkOpened(parser, acc) ==
    IF parser = "universal" THEN Len(WalkSections(acc)) ELSE 0

WalkIsSummary(parser, row, col_map) ==
    IF parser = "universal" THEN _soa_is_summary_row(row, col_map).hit
    ELSE _is_summary_row(row) # ""

WalkIsTitle(parser, row, col_map) ==
    IF parser = "universal" THEN _soa_is_section_header(row, col_map) # ""
    ELSE _is_section_header(row, WalkWidth)

\* The third check: the row passes the data-row rules and carries an amount.
WalkIsData(parser, row, col_map, acc) ==
    IF parser = "universal"
    THEN _soa_is_data_row(row, col_map) /\ _soa_extract_item(row, col_map).amount # None
    ELSE /\ ~_is_header_row(row)
         /\ LegacyAmount(row, acc.col_map, Get(acc.col_map, "amount", -1)) # None

\* The row the step from the current state processes.
WalkRow == arg.rows[ret.i + 1]

C19_Step ==
    (ret'.i = ret.i + 1 /\ Len(_non_blank_vals(WalkRow)) > 0) =>
        /\ WalkIsSummary(arg.parser, WalkRow, arg.col_map) =>
              /\ WalkRecords(arg.parser, ret'.acc) = WalkRecords(arg.parser, ret.acc)
              /\ WalkOpened(arg.parser, ret'.acc) = WalkOpened(arg.parser, ret.acc)
        /\ WalkIsTitle(arg.parser, WalkRow, arg.col_map) =>
              WalkRecords(arg.parser, ret'.acc) = WalkRecords(arg.parser, ret.acc)
        /\ (~WalkIsSummary(arg.parser, WalkRow, arg.col_map)
            /\ WalkIsTitle(arg.parser, WalkRow, arg.col_map)
            /\ arg.parser = "universal") =>
              WalkOpened(arg.parser, ret'.acc) = WalkOpened(arg.parser, ret.acc) + 1
        /\ (~WalkIsSummary(arg.parser, WalkRow, arg.col_map)
            /\ ~WalkIsTitle(arg.parser, WalkRow, arg.col_map)) =>
              WalkRecords(arg.parser, ret'.acc) =
                  WalkRecords(arg.parser, ret.acc)
                  + (IF WalkIsData(arg.parser, WalkRow, arg.col_map, ret.acc) THEN 1 ELSE 0)

ActiveSection(parser, acc, sec_name) ==
    IF parser = "universal"
    THEN [opened |-> Len(WalkSections(acc)),
          name |-> IF Len(acc.cur) = 0 THEN "" ELSE acc.cur[1].name]
    ELSE [opened |-> 1, name |-> sec_name]

\* col_map of the walk: fixed before the loop in _parse_soa, a local the
\* loop reassigns in parse_soa_workbook.
ActiveColMap(parser, acc, col_map) ==
    IF parser = "universal" THEN col_map ELSE acc.col_map

C20_Step ==
    (ret'.i = ret.i + 1) =>
        /\ ActiveSection(arg.parser, ret'.acc, arg.sec_name)
              # ActiveSection(arg.parser, ret.acc, arg.sec_name)
           => WalkIsTitle(arg.parser, WalkRow, arg.col_map)
        /\ ActiveColMap(arg.parser, ret'.acc, arg.col_map)
              # ActiveColMap(arg.parser, ret.acc, arg.col_map)
           => _is_header_row(WalkRow)
        /\ (\/ WalkIsSummary(arg.parser, WalkRow, arg.col_map)
            \/ (/\ ~WalkIsTitle(arg.parser, WalkRow, arg.col_map)
                /\ WalkIsData(arg.parser, WalkRow, arg.col_map, ret.acc)))
           => /\ ActiveSection(arg.parser, ret'.acc, arg.sec_name)
                    = ActiveSection(arg.parser, ret.acc, arg.sec_name)
              /\ ActiveColMap(arg.parser, ret'.acc, arg.col_map)
                    = ActiveColMap(arg.parser, ret.acc, arg.col_map)

\* C20: during a row walk the active section changes only when a
\* section-title row is processed and the active column map changes only
\* when a header row is processed; a data row or a summary row leaves both
\* unchanged.
C20_SectionAndColMapFrame == [][C20_Step]_vars

\* The three totals of each section a walk state holds, the active one last.
SectionTotals(parser, acc) ==
    IF parser = "universal"
    THEN [i \in 1..Len(WalkSections(acc)) |->
            [total |-> WalkSections(acc)[i].total,
             overdue |-> WalkSections(acc)[i].overdue,
             available_credit |-> WalkSections(acc)[i].available_credit]]
    ELSE <<[total |-> Get(acc.totals, "total", None),
            overdue |-> Get(acc.totals, "overdue", None),
            available_credit |-> Get(acc.totals, "available credit", None)]>>

\* grand of parse_soa_workbook for the one section the pass has walked.
LegacyWalkGrand(acc, sec_name) ==
    LegacyGrand(<<LegacySection_section([name |-> sec_name], acc)>>, acc.rows)

\* The file-level grand totals the result would carry if the walk ended here.
FileTotals(parser, acc, sec_name) ==
    IF parser = "universal"
    THEN SoaGrandTotals(WalkSections(acc), acc.total_overdue)
    ELSE [total_overdue |-> Get(LegacyWalkGrand(acc, sec_name), "total_overdue", None),
          total_credits |-> Get(LegacyWalkGrand(acc, sec_name), "total_credits", None),
          net_balance |-> Get(LegacyWalkGrand(acc, sec_name), "net_balance", None)]

\* The label and the amount the summary check reads from a row.
SummaryLabel(parser, row, col_map) ==
    IF parser = "universal" THEN _soa_is_summary_row(row, col_map).kw
    ELSE _is_summary_row(row)

SummaryAmount(parser, row, col_map) ==
    IF parser = "universal" THEN _soa_is_summary_row(row, col_map).amt
    ELSE FirstOf(row, _coerce_amount, IsSome)

SummaryField(label) ==
    IF label = "available credit" THEN "available_credit" ELSE label

\* Whether the walk has read a "total overdue" row.
TotalOverdueRead(parser, acc) ==
    IF parser = "universal" THEN acc.total_overdue # None
    ELSE "total overdue" \in DOMAIN acc.totals

\* The totals of the sections differ at most in one field of the active one.
OnlyActiveField(before, after, field) ==
    /\ Len(after) = Len(before)
    /\ \A i \in 1..Len(before) : \A f \in {"total", "overdue", "available_credit"} :
          after[i][f] # before[i][f] => (i = Len(before) /\ f = field)

\* A summary row is being processed by the step from the current state.
SummaryStep ==
    /\ ret'.i = ret.i + 1
    /\ Len(_non_blank_vals(WalkRow)) > 0
    /\ WalkIsSummary(arg.parser, WalkRow, arg.col_map)
    /\ SummaryLabel(arg.parser, WalkRow, arg.col_map)
          \in {"total overdue", "total", "overdue", "available credit"}

TotalOverdueStep ==
    /\ FileTotals(arg.parser, ret'.acc, arg.sec_name).total_overdue
          = SummaryAmount(arg.parser, WalkRow, arg.col_map)
    /\ SectionTotals(arg.parser, ret'.acc) = SectionTotals(arg.parser, ret.acc)

C22_Step ==
    SummaryStep =>
        IF SummaryLabel(arg.parser, WalkRow, arg.col_map) = "total overdue"
        THEN TotalOverdueStep
        ELSE /\ OnlyActiveField(SectionTotals(arg.parser, ret.acc),
                                SectionTotals(arg.parser, ret'.acc),
                                SummaryField(SummaryLabel(arg.parser, WalkRow, arg.col_map)))
             /\ FileTotals(arg.parser, ret'.acc, arg.sec_name)
                   = FileTotals(arg.parser, ret.acc, arg.sec_name)

C22_AmendedStep ==
    SummaryStep =>
        IF SummaryLabel(arg.parser, WalkRow, arg.col_map) = "total overdue"
        THEN TotalOverdueStep
        ELSE /\ OnlyActiveField(SectionTotals(arg.parser, ret.acc),
                                SectionTotals(arg.parser, ret'.acc),
                                SummaryField(SummaryLabel(arg.parser, WalkRow, arg.col_map)))
             /\ FileTotals(arg.parser, ret'.acc, arg.sec_name).total_credits
                   = FileTotals(arg.parser, ret.acc, arg.sec_name).total_credits
             /\ FileTotals(arg.parser, ret'.acc, arg.sec_name).net_balance
                   = FileTotals(arg.parser, ret.acc, arg.sec_name).net_balance
             /\ FileTotals(arg.parser, ret'.acc, arg.sec_name).total_overdue
                   # FileTotals(arg.parser, ret.acc, arg.sec_name).total_overdue
                => /\ SummaryLabel(arg.parser, WalkRow, arg.col_map) = "overdue"
                   /\ ~TotalOverdueRead(arg.parser, ret.acc)

MaxBody == 2

StatementHeader ==
    TextRow(<<"Company Code", "Account", "Reference", "Doc Date", "Due Date", "Amount",
              "Curr">>)

\* A credit line.
StatementCreditRow ==
    <<IntV(100), IntV(200), StrV("INV2"), StrV("05/01/2026"), StrV("05/02/2026"),
      FloatV(-2550), StrV("EUR")>>

StatementSecondTitle == Pad(TextRow(<<"Spare Parts Charges">>), WalkWidth)

StatementRows ==
    {WalkTitleRow, StatementSecondTitle, WalkDataRow, StatementCreditRow, WalkTotalRow,
     WalkSectionOverdueRow, WalkOverdueRow, WalkTitledTotalRow, WalkTitledDataRow,
     WalkBlankRow}

StatementBodies == UNION {[1..n -> StatementRows] : n \in 1..MaxBody}

\* Longer sheets: one title used twice, and two sections with their lines.
StatementLongBodies ==
    { <<WalkTitleRow, WalkDataRow, WalkTotalRow>>,
      <<WalkTitleRow, WalkDataRow, WalkTitleRow, StatementCreditRow>>,
      <<WalkTitleRow, WalkDataRow, StatementSecondTitle, StatementCreditRow>>,
      <<WalkTitleRow, WalkDataRow, WalkTotalRow, StatementSecondTitle, StatementCreditRow>>,
      <<WalkDataRow, WalkTitleRow, StatementCreditRow, WalkDataRow>> }

InitStatement ==
    /\ now = StartDay
    /\ seed = 0
    /\ op = "init"
    /\ \E body \in StatementBodies \cup StatementLongBodies :
          arg = <<StatementHeader>> \o body
    /\ ret = None
    /\ hist = << >>

\* _parse_soa on the workbook whose one sheet is the statement.
UniversalStatement ==
    /\ op = "init"
    /\ op' = "_parse_soa"
    /\ ret' = _parse_soa(<<Sheet("SOA", arg)>>, "a.xlsx")
    /\ UNCHANGED <<now, seed, arg, hist>>

\* parse_soa_workbook on the same workbook.
LegacyStatement ==
    /\ op = "init"
    /\ op' = "parse_soa_workbook"
    /\ ret' = parse_soa_workbook(Bytes(<<Sheet("SOA", arg)>>), now)
    /\ UNCHANGED <<now, seed, arg, hist>>

NextStatement == UniversalStatement \/ LegacyStatement

SpecStatement == InitStatement /\ [][NextStatement]_vars

\* The amounts the "Total" summary rows of a sheet carry.
TotalRowValues(rows) ==
    {rows[i][6] : i \in {j \in 1..Len(rows) : rows[j][5] = StrV("Total")}}

\* The block total a result reports for a section: the section's own field
\* in _parse_soa, the totals entry "total" in parse_soa_workbook.
BlockTotal(parser, sec) ==
    IF parser = "_parse_soa" THEN sec.total
    ELSE IF "total" \in DOMAIN sec.totals THEN sec.totals["total"] ELSE None

\* The amounts of a section's records, in hundredths.
BlockAmounts(parser, sec) ==
    IF parser = "_parse_soa" THEN [i \in 1..Len(sec.items) |-> sec.items[i].amount.n]
    ELSE [i \in 1..Len(sec.rows) |-> sec.rows[i].Amount.n]

\* C21: every section with records has a block total: the value of a Total
\* summary row when one was read, else the sum of the amounts of the
\* section's records; it is never left unset.
C21_BlockTotalNeverUnset ==
    op \in {"_parse_soa", "parse_soa_workbook"} =>
        \A i \in 1..Len(ret.value.sections) :
            Len(BlockAmounts(op, ret.value.sections[i])) > 0 =>
                /\ BlockTotal(op, ret.value.sections[i]) # None
                /\ \/ BlockTotal(op, ret.value.sections[i]) \in TotalRowValues(arg)
                   \/ BlockTotal(op, ret.value.sections[i]).n
                         = SumSeq(BlockAmounts(op, ret.value.sections[i]))

(***************************************************************************)
(* Specification of the section-boundary detectors: the row is the input,  *)
(* one action per detector.                                                *)
(***************************************************************************)

MaxTitleCells == 4

TitleCells ==
    {None, StrV(""), StrV("TotalCare Charges"), StrV("Other Credits"), StrV("Total"),
     StrV("INV1"), FloatV(50000)}

TitleRows == UNION {[1..w -> TitleCells] : w \in 1..MaxTitleCells}

InitTitles ==
    /\ now = StartDay
    /\ seed = 0
    /\ op = "init"
    /\ arg \in TitleRows
    /\ ret = None
    /\ hist = << >>

\* _is_section_header(row_values, col_count) of the legacy parser.
SectionHeaderCheck ==
    /\ op = "init"
    /\ op' = "_is_section_header"
    /\ ret' = [title |-> _is_section_header(arg, Len(arg))]
    /\ UNCHANGED <<now, seed, arg, hist>>

\* _soa_is_section_header(row, col_map): a label counts as a title.
SoaSectionHeaderCheck ==
    /\ op = "init"
    /\ op' = "_soa_is_section_header"
    /\ ret' = [title |-> _soa_is_section_header(arg, _SOA_POSITIONAL) # ""]
    /\ UNCHANGED <<now, seed, arg, hist>>

NextTitles == SectionHeaderCheck \/ SoaSectionHeaderCheck

SpecTitles == InitTitles /\ [][NextTitles]_vars

\* The cells of the row that are not blank, in row order.
NonBlankCells(row) == SelectSeq(row, LAMBDA v : ~_is_blank(v))

\* The cell is text that does not read as a number.
NonNumericText(v) == v.k = "str" /\ ~PyFloat(Remove(Strip(v.s), ",")).ok

\* The label of a text cell: lower case, without the colon that ends it.
LabelOf(v) == RStripChar(Lower(Strip(v.s)), ":")

ReservedLabels == {"total", "overdue", "available credit", "net balance"}

\* Two populated cells, a label that reads like a summary and a number.
SummaryPair(row) ==
    /\ Len(NonBlankCells(row)) = 2
    /\ NonBlankCells(row)[1].k = "str"
    /\ AnyIn(<<"total", "overdue", "credit", "balance">>, LabelOf(NonBlankCells(row)[1]))
    /\ PyFloat(Unformatted(NonBlankCells(row)[2])).ok

\* C24: a detector classifies a row as a section title only if the row has
\* at most 3 non-blank cells, its first non-blank cell is non-numeric text
\* that is not a reserved summary label, and it is not a two-cell
\* label-plus-number pair that looks like a summary row.
C24_TitleOnlyIf ==
    (op \in {"_is_section_header", "_soa_is_section_header"} /\ ret.title) =>
        /\ Len(NonBlankCells(arg)) \in 1..3
        /\ NonNumericText(NonBlankCells(arg)[1])
        /\ LabelOf(NonBlankCells(arg)[1]) \notin ReservedLabels
        /\ ~SummaryPair(arg)

\* The column map _parse_soa takes from the header row of the statement.
StatementColMap == _map_soa_columns(StatementHeader)

\* The rows below the header (1-based positions) that open a section.
StatementTitles(rows) ==
    SelectSeq([i \in 1..Len(rows) |-> i],
              LAMBDA i : /\ i > 1
                         /\ ~WalkIsSummary("universal", rows[i], StatementColMap)
                         /\ WalkIsTitle("universal", rows[i], StatementColMap))

\* The rows below the header that are valid data rows: neither a summary
\* row nor a title, passing the data-row rules and carrying an amount.
StatementRecords(rows) ==
    SelectSeq([i \in 1..Len(rows) |-> i],
              LAMBDA i : /\ i > 1
                         /\ ~WalkIsSummary("universal", rows[i], StatementColMap)
                         /\ ~WalkIsTitle("universal", rows[i], StatementColMap)
                         /\ WalkIsData("universal", rows[i], StatementColMap, None))

\* Where each expected section starts: position 1 stands for the 'General'
\* section of the data rows no title precedes.
StatementStarts(rows) ==
    (IF /\ Len(StatementRecords(rows)) > 0
        /\ (Len(StatementTitles(rows)) = 0
            \/ StatementRecords(rows)[1] < StatementTitles(rows)[1])
     THEN <<1>> ELSE << >>)
    \o StatementTitles(rows)

StatementSectionName(rows, start) ==
    IF start = 1 THEN "General" ELSE _clean(rows[start][1])

\* The records of the data rows between a section's start and the next one.
StatementSectionItems(rows, starts, k) ==
    [j \in 1..Len(SelectSeq(StatementRecords(rows),
                            LAMBDA i : /\ starts[k] < i
                                       /\ (k < Len(starts) => i < starts[k + 1]))) |->
        _soa_extract_item(rows[SelectSeq(StatementRecords(rows),
                                         LAMBDA i : /\ starts[k] < i
                                                    /\ (k < Len(starts) => i < starts[k + 1]))[j]],
                          StatementColMap)]

\* C25: in the result of _parse_soa the sections are, in sheet order, a
\* 'General' section when data rows precede every title and then one section
\* per title row; each section holds, in sheet order, exactly the records of
\* the valid data rows between its start and the next title, so every record
\* is in exactly one section and none is dropped.
C25_RecordsInTheirSection ==
    op = "_parse_soa" =>
        /\ ~ret.raised
        /\ Len(ret.value.sections) = Len(StatementStarts(arg))
        /\ \A k \in 1..Len(StatementStarts(arg)) :
              /\ ret.value.sections[k].name
                    = StatementSectionName(arg, StatementStarts(arg)[k])
              /\ ret.value.sections[k].items
                    = StatementSectionItems(arg, StatementStarts(arg), k)

\* Data rows before and after a title: the first went to 'General', the
\* others to the titled section, in order.
C25_Witness ==
    /\ op = "_parse_soa"
    /\ arg = <<StatementHeader, WalkDataRow, WalkTitleRow, StatementCreditRow, WalkDataRow>>
    /\ Len(ret.value.sections) = 2
    /\ ret.value.sections[1].name = "General"
    /\ Len(ret.value.sections[1].items) = 1
    /\ ret.value.sections[2].name = "TotalCare Charges"
    /\ Len(ret.value.sections[2].items) = 2
    /\ ret.value.sections[2].items[1].amount = FloatV(-2550)
    /\ ret.value.sections[2].items[2].amount = FloatV(50000)

\* The rows of the sections of a parse_soa_workbook result, in the order of
\* the sections map.
SectionRows(result) ==
    Concat([i \in 1..Len(result.sections) |-> result.sections[i].rows])

\* C26: in the result of parse_soa_workbook, all_items is the concatenation,
\* in sheet order, of the rows of the sections of the sections map, and
\* grand_totals.item_count is the number of those rows, also when two section
\* titles have the same name.
C26_AllItemsAreSectionRows ==
    op = "parse_soa_workbook" =>
        /\ ~ret.raised
        /\ ret.value.all_items = SectionRows(ret.value)
        /\ Len(ret.value.all_items) > 0 =>
              /\ "item_count" \in DOMAIN ret.value.grand_totals
              /\ ret.value.grand_totals["item_count"] = IntV(Len(SectionRows(ret.value)))

(***************************************************************************)
(* Opportunity tracker: the log sheets and the merge by estimation level   *)
(***************************************************************************)
_OPP_HDR_SIGNALS ==
    <<"#", "project", "programme", "customer", "region", "asks", "type of opportunity",
      "priority", "status", "term benefit", "external probability", "internal complexity">>

_OPP_CORE_COLS ==
    << [f |-> "number", a |-> <<"#">>],
       [f |-> "project", a |-> <<"project">>],
       [f |-> "programme", a |-> <<"programme", "program">>],
       [f |-> "customer", a |-> <<"customer">>],
       [f |-> "region", a |-> <<"region">>],
       [f |-> "asks", a |-> <<"asks">>],
       [f |-> "opportunity_type", a |-> <<"type of opportunity">>],
       [f |-> "levers", a |-> <<"levers">>],
       [f |-> "priority", a |-> <<"priority">>],
       [f |-> "spe_related", a |-> <<"spe related">>],
       [f |-> "num_spe", a |-> <<"no,of spe", "no. of spe", "no of spe">>],
       [f |-> "crp_pct", a |-> <<"crp%", "crp %">>],
       [f |-> "ext_probability", a |-> <<"external probability">>],
       [f |-> "int_complexity", a |-> <<"internal complexity">>],
       [f |-> "status", a |-> <<"status">>],
       [f |-> "evaluation_level", a |-> <<"evaluation level">>],
       [f |-> "term_benefit", a |-> <<"term benefit">>],
       [f |-> "benefit_2026", a |-> <<"2026">>],
       [f |-> "benefit_2027", a |-> <<"2027">>],
       [f |-> "sum_26_27", a |-> <<"sum of 26/27">>] >>

_classify_opp_sheet(sheet_name) ==
    IF Strip(Lower(sheet_name)) = "l2" THEN "ICT"
    ELSE IF Strip(Lower(sheet_name)) = "l3" THEN "Contract"
    ELSE IF AnyIn(<<"mea log", "opp log">>, Strip(Lower(sheet_name))) THEN "Hopper"
    ELSE "Unknown"

_get_generic(row, col_map, field) ==
    IF field \notin DOMAIN col_map \/ col_map[field] >= Len(row) THEN None
    ELSE row[col_map[field] + 1]

\* The row is a record: it is not blank, has a number, and one of project,
\* customer, asks and status is filled.
OppRowKept(row, col_map) ==
    /\ Len(_non_blank_vals(row)) > 0
    /\ _to_float(_get_generic(row, col_map, "number")) # None
    /\ \E f \in {"project", "customer", "asks", "status"} :
          CleanOrNone(_get_generic(row, col_map, f)) # None

\* The core fields of a record; the nested financial, to-go and resource
\* dicts of the record are left out.
OppRecord(row, col_map) ==
    [number |-> _to_float(_get_generic(row, col_map, "number")),
     project |-> CleanOrNone(_get_generic(row, col_map, "project")),
     customer |-> CleanOrNone(_get_generic(row, col_map, "customer")),
     asks |-> CleanOrNone(_get_generic(row, col_map, "asks")),
     opportunity_type |-> CleanOrNone(_get_generic(row, col_map, "opportunity_type")),
     status |-> CleanOrNone(_get_generic(row, col_map, "status")),
     term_benefit |-> _to_float(_get_generic(row, col_map, "term_benefit"))]

_parse_opp_log_sheet_records(rows, hdr_idx, col_map) ==
    [i \in 1..Len(SelectSeq(SubSeq(rows, hdr_idx + 2, Len(rows)),
                            LAMBDA row : OppRowKept(row, col_map))) |->
        OppRecord(SelectSeq(SubSeq(rows, hdr_idx + 2, Len(rows)),
                            LAMBDA row : OppRowKept(row, col_map))[i], col_map)]

_parse_opp_log_sheet_header(rows, sheet_name, hdr_idx) ==
    Return([estimation_level |-> _classify_opp_sheet(sheet_name),
            sheet_name |-> sheet_name,
            records |-> _parse_opp_log_sheet_records(rows, hdr_idx,
                            _map_generic_columns(rows[hdr_idx + 1], _OPP_CORE_COLS))])

\* _parse_opp_log_sheet(df, sheet_name); df.iloc[hdr_idx] raises on a sheet
\* without rows.  The sums of the SUMS row are left out.
_parse_opp_log_sheet(rows, sheet_name) ==
    IF Len(rows) = 0 THEN Raise(OutOfBounds)
    ELSE _parse_opp_log_sheet_header(rows, sheet_name,
                                     _find_header_row(rows, _OPP_HDR_SIGNALS, 20))

\* opp_log_sheets: the sheets named as logs, else those that read as one.
OppLogSheets(all_sheets) ==
    IF \E i \in 1..Len(all_sheets) :
           AnyIn(<<"l2", "l3", "mea log", "opp log">>, Lower(all_sheets[i].name))
    THEN SelectSeq(all_sheets, LAMBDA sh :
                       AnyIn(<<"l2", "l3", "mea log", "opp log">>, Lower(sh.name)))
    ELSE SelectSeq(all_sheets, LAMBDA sh :
                       AnyIn(<<"opp log sheet", "type of opportunity">>,
                             TextBlob(sh.rows, 20)))

\* _parse_opp_log_sheet of each log sheet, in order.
ParsedLogs(sheets) ==
    [i \in 1..Len(sheets) |-> _parse_opp_log_sheet(sheets[i].rows, sheets[i].name)]

\* `if parsed_sheet["records"]`; a sheet whose parse raised is skipped.
WithRecords(parsed) ==
    SelectSeq(parsed, LAMBDA p : ~p.raised /\ Len(p.value.records) > 0)

OpportunitiesBySheet_values(kept) ==
    [i \in 1..Len(kept) |-> kept[i].value]

\* opportunities_by_sheet, in insertion order: the parsed log sheets that
\* have records.
OpportunitiesBySheet(all_sheets) ==
    OpportunitiesBySheet_values(WithRecords(ParsedLogs(OppLogSheets(all_sheets))))

\* The dict comprehension keyed by estimation level: a later sheet of the
\* same level replaces the earlier one.
OpportunitiesByLevel(by_sheet) ==
    [level \in {by_sheet[i].estimation_level : i \in 1..Len(by_sheet)} |->
        [sheet_name |-> by_sheet[CHOOSE i \in 1..Len(by_sheet) :
                                    /\ by_sheet[i].estimation_level = level
                                    /\ \A j \in (i + 1)..Len(by_sheet) :
                                          by_sheet[j].estimation_level # level].sheet_name,
         records |-> by_sheet[CHOOSE i \in 1..Len(by_sheet) :
                                    /\ by_sheet[i].estimation_level = level
                                    /\ \A j \in (i + 1)..Len(by_sheet) :
                                          by_sheet[j].estimation_level # level].records]]

\* The part of the result of _parse_opportunity_tracker built from the log
\* sheets.
TrackerLogs(by_sheet) ==
    [file_type |-> "OPPORTUNITY_TRACKER",
     sheets_parsed |-> [i \in 1..Len(by_sheet) |-> by_sheet[i].sheet_name],
     opportunities |-> [i \in 1..Len(by_sheet) |->
                           [sheet_name |-> by_sheet[i].sheet_name,
                            records |-> by_sheet[i].records]],
     opportunities_by_level |-> OpportunitiesByLevel(by_sheet),
     summary |-> [total_opportunities |->
                     Len(Concat([i \in 1..Len(by_sheet) |-> by_sheet[i].records]))]]

(***************************************************************************)
(* Specification of the tracker merge: the workbook is the input.          *)
(***************************************************************************)

MaxLogSheets == 2

OppHeader == TextRow(<<"#", "Project", "Type of Opportunity", "Status", "Term Benefit">>)

OppGrids ==
    { <<OppHeader>>,
      <<OppHeader, <<IntV(1), StrV("Alpha"), StrV("Price"), StrV("Open"), FloatV(10000)>>>>,
      <<OppHeader, <<IntV(1), StrV("Beta"), StrV("Scope"), StrV("Closed"), FloatV(2500)>>,
        <<IntV(2), None, None, None, None>>,
        <<IntV(3), StrV("Gamma"), None, None, FloatV(700)>>>> }

OppSheetNames == {"L2", "L3", "MEA LOG", "OPP LOG", "L2 old", "Data"}

TrackerBooks ==
    UNION {{wb \in [1..n -> [name : OppSheetNames, rows : OppGrids]] :
               \A i, j \in 1..n : i # j => wb[i].name # wb[j].name} : n \in 1..MaxLogSheets}

InitTracker ==
    /\ now = StartDay
    /\ seed = 0
    /\ op = "init"
    /\ arg \in TrackerBooks
    /\ ret = None
    /\ hist = << >>

ParseTracker ==
    /\ op = "init"
    /\ op' = "_parse_opportunity_tracker"
    /\ ret' = TrackerLogs(OpportunitiesBySheet(arg))
    /\ UNCHANGED <<now, seed, arg, hist>>

NextTracker == ParseTracker

SpecTracker == InitTracker /\ [][NextTracker]_vars

\* C27: the records reachable through opportunities_by_level are the records
\* counted in summary.total_opportunities and listed in opportunities: every
\* parsed sheet with records has its entry under its estimation level, also
\* when two sheets map to the same level.
C27_ByLevelHoldsEveryRecord ==
    op = "_parse_opportunity_tracker" =>
        /\ \A i \in 1..Len(ret.opportunities) :
              \E level \in DOMAIN ret.opportunities_by_level :
                  /\ level = _classify_opp_sheet(ret.opportunities[i].sheet_name)
                  /\ ret.opportunities_by_level[level].sheet_name
                        = ret.opportunities[i].sheet_name
                  /\ ret.opportunities_by_level[level].records
                        = ret.opportunities[i].records
        /\ ret.summary.total_opportunities
              = Cardinality({p \in (DOMAIN ret.opportunities_by_level) \X (1..3) :
                                p[2] <= Len(ret.opportunities_by_level[p[1]].records)})

(***************************************************************************)
(* Specification of the chat routes: the requests of one session are the   *)
(* input, each runs chat step by step and clear_chat may run in between.   *)
(***************************************************************************)
MaxRequests == 2

Requests == 1..MaxRequests

\* The message field of a request body after strip().
ChatMessages == {"", "q1", "q2"}

\* The reply of the model to a message.
AnswerTo(message) == IF message = "q1" THEN "a1" ELSE "a2"

UserMessage(message) == [role |-> "user", content |-> message]

AssistantMessage(content) == [role |-> "assistant", content |-> content]

\* The parameters call_openrouter declares and the keywords chat passes.
call_openrouter_params == {"messages", "system_prompt", "model"}

chat_call_keywords == {"model", "file_attachments"}

\* What the call of call_openrouter in chat can produce for a message: a
\* keyword the callee does not declare raises TypeError before its body runs;
\* otherwise the body returns an error or the content of the reply.
chat_call_outcomes(message) ==
    IF chat_call_keywords \subseteq call_openrouter_params
    THEN {[kind |-> "error", content |-> ""],
          [kind |-> "content", content |-> AnswerTo(message)]}
    ELSE {[kind |-> "TypeError", content |-> ""]}

NoResponse == [status |-> 0, body |-> ""]

Response(status, body) == [status |-> status, body |-> body]

\* hist is _chat_history[sid]; arg.has_history says whether the key is there.
InitChat ==
    /\ now = StartDay
    /\ seed = 0
    /\ op = "init"
    /\ arg \in [stored : BOOLEAN,
                has_history : {FALSE},
                pc : [Requests -> {"start"}],
                message : [Requests -> ChatMessages]]
    /\ ret = [r \in Requests |-> NoResponse]
    /\ hist = << >>

\* Lines 449-459: no stored data or no message answers 400.
ChatReject(r) ==
    /\ arg.pc[r] = "start"
    /\ ~arg.stored \/ arg.message[r] = ""
    /\ op' = "chat_rejected"
    /\ arg' = [arg EXCEPT !.pc[r] = "done"]
    /\ ret' = [ret EXCEPT ![r] = Response(400, "error")]
    /\ UNCHANGED <<now, seed, hist>>

\* Line 510: the test `sid not in _chat_history`.
ChatCheck(r) ==
    /\ arg.pc[r] = "start"
    /\ arg.stored /\ arg.message[r] # ""
    /\ op' = "chat_checked"
    /\ arg' = [arg EXCEPT !.pc[r] = IF arg.has_history THEN "append" ELSE "create"]
    /\ UNCHANGED <<now, seed, ret, hist>>

\* Line 511: _chat_history[sid] = [].
ChatCreate(r) ==
    /\ arg.pc[r] = "create"
    /\ op' = "chat_created"
    /\ arg' = [arg EXCEPT !.pc[r] = "append", !.has_history = TRUE]
    /\ hist' = << >>
    /\ UNCHANGED <<now, seed, ret>>

\* Line 520: the user message is appended.
ChatAppend(r) ==
    /\ arg.pc[r] = "append"
    /\ op' = "chat_appended"
    /\ arg' = [arg EXCEPT !.pc[r] = "call"]
    /\ hist' = Append(hist, UserMessage(arg.message[r]))
    /\ UNCHANGED <<now, seed, ret>>

\* Lines 523-541: the call and what chat does with its outcome.  An
\* exception leaves chat through the framework as a 500; pop() on an empty
\* list raises IndexError.
ChatCall(r) ==
    /\ arg.pc[r] = "call"
    /\ op' = "chat_called"
    /\ arg' = [arg EXCEPT !.pc[r] = "done"]
    /\ \E out \in chat_call_outcomes(arg.message[r]) :
          CASE out.kind = "TypeError" ->
                  /\ hist' = hist
                  /\ ret' = [ret EXCEPT ![r] = Response(500, "TypeError")]
            [] out.kind = "error" /\ hist = << >> ->
                  /\ hist' = hist
                  /\ ret' = [ret EXCEPT ![r] = Response(500, "IndexError")]
            [] out.kind = "error" /\ hist # << >> ->
                  /\ hist' = SubSeq(hist, 1, Len(hist) - 1)
                  /\ ret' = [ret EXCEPT ![r] = Response(502, "error")]
            [] out.kind = "content" ->
                  /\ hist' = Append(hist, AssistantMessage(out.content))
                  /\ ret' = [ret EXCEPT ![r] = Response(200, out.content)]
    /\ UNCHANGED <<now, seed>>

\* clear_chat, lines 544-550.
ClearChat ==
    /\ op' = "clear_chat"
    /\ arg' = [arg EXCEPT !.has_history = TRUE]
    /\ hist' = << >>
    /\ UNCHANGED <<now, seed, ret>>

NextChat ==
    \/ \E r \in Requests : ChatReject(r)
    \/ \E r \in Requests : ChatCheck(r)
    \/ \E r \in Requests : ChatCreate(r)
    \/ \E r \in Requests : ChatAppend(r)
    \/ \E r \in Requests : ChatCall(r)
    \/ ClearChat

SpecChat == InitChat /\ [][NextChat]_vars

\* No request of the session is between its first and its last step.
ChatQuiet == \A r \in Requests : arg.pc[r] \in {"start", "done"}

\* The history is user messages, each followed by the reply to it.
ChatPaired ==
    /\ Len(hist) % 2 = 0
    /\ \A i \in 1..Len(hist) :
          IF i % 2 = 1
          THEN hist[i].role = "user"
          ELSE hist[i] = AssistantMessage(AnswerTo(hist[i - 1].content))

\* The sequence without its i-th element.
WithoutAt(s, i) == SubSeq(s, 1, i - 1) \o SubSeq(s, i + 1, Len(s))

\* The request r ends in this step with a failed model call.
ChatFailed(r) ==
    /\ arg.pc[r] = "call"
    /\ arg'.pc[r] = "done"
    /\ ret'[r].status \in {500, 502}

C30_Step ==
    /\ ChatQuiet' => ChatPaired'
    /\ \A r \in Requests :
          ChatFailed(r) =>
              \E i \in 1..Len(hist) :
                  /\ hist[i] = UserMessage(arg.message[r])
                  /\ hist' = WithoutAt(hist, i)

\* C30: under every interleaving of the chat requests of one session the
\* stored history is user messages each followed by its own assistant reply,
\* and a request whose model call fails removes exactly the user message it
\* added and leaves the rest of the history as it was.
C30_HistoryPairedAndFailureUndone == [][C30_Step]_vars

====
